---- MODULE Spec2Model ----
(***************************************************************************)
(* TacBoard: a server-authoritative shared tactics board.  The server      *)
(* (server.js, here src/unnamed/part_001) keeps strokes, arrows, tokens    *)
(* and the roster, relays every client event, records timelines and        *)
(* replays them with timers.  The browser client (src/public/app.js,       *)
(* third and newest copy, lines 1860-3447) keeps optimistic local lists.   *)
(*                                                                         *)
(* Each socket handler runs to completion in one turn of the Node event    *)
(* loop, so one action of the model is one whole handler or one timer      *)
(* callback.  JSON payloads are records; ids are the strings the code      *)
(* builds ("t1", "ar1", "c1-1", "c1-a1").                                  *)
(***************************************************************************)
EXTENDS Integers, Sequences, FiniteSets, TLC

\* ---------------------------------------------------------------- bounds
MaxEvents   == 6   \* socket events received and clock ticks in one run
MaxGestures == 3   \* user gestures performed by all clients together
TickMs      == 500 \* the clock's granularity in ms
MaxJoins    == 10  \* joins processed in a run that fills the palette and wraps

\* -------------------------------------------------------- program constants
InitDelayMs  == 150   \* setTimeout(replay-init, 150)
EntryLeadMs  == 350   \* setTimeout(entry, entry.t + 350)
EndTrailMs   == 900   \* setTimeout(finishReplay, duration + 900)
USER_COLORS  == << "#e74c3c", "#3498db", "#2ecc71", "#f39c12",
                   "#9b59b6", "#1abc9c", "#e67e22", "#e91e63" >>

\* socket ids of the connections; a client's username is fixed per connection
Conns == {"c1", "c2", "c3"}
\* the connections that send in the specifications of two parties
Peers == {"c1", "c2"}
NameOf(c) == "user-" \o c
\* null (rec.snapshot, rep.preSnap before first use); null recording id
Null  == << >>
NoRec == 0

VARIABLES
  \* ---- server (part_001)
  sockets,      \* connected sockets: the receivers of io.emit
  users,        \* state.users, in Object.values order
  strokes,      \* state.strokes
  arrows,       \* state.arrows
  tokens,       \* state.tokens, in Object.values (insertion) order
  nextTokenId, nextArrowId, colorIndex,
  rec,          \* { active, start, snapshot, timeline }
  rep,          \* { active, timers, preSnap, currentRecId }
  recordings, nextRecId,
  boardPresets, nextPresetId,
  gateway,      \* the database tables and the backup files, and whether writes succeed
  now,          \* Date.now(), ms
  timerq,       \* the runtime's pending setTimeout callbacks, in creation order
  emitted,      \* what the last server turn emitted: <<[to, event, data], ...>>
  \* ---- clients (app.js), one per connection
  cl,           \* cl[c] = [myId, myColor, allStrokes, allArrows, tokens, myUndoStack, strokeSeq, arrowSeq]
  \* ---- transport: FIFO per connection and direction
  toServer, toClient,
  \* ---- history, for stating properties only
  issued,       \* ids handed out so far: [tokens |-> <<..>>, arrows |-> <<..>>]
  replayLog,    \* entries re-emitted by the timers of the replay in flight
  inputs        \* inputs taken from the environment so far (events, gestures)

docVars    == << strokes, arrows, tokens >>
idVars     == << nextTokenId, nextArrowId >>
sessVars   == << sockets, users, colorIndex >>
recVars    == << rec, recordings, nextRecId >>
repVars    == << rep, timerq, replayLog >>
presetVars == << boardPresets, nextPresetId >>
serverVars == << docVars, idVars, sessVars, recVars, repVars, presetVars, gateway, now, emitted, issued >>
netVars    == << cl, toServer, toClient >>
vars       == << serverVars, netVars, inputs >>

\* ------------------------------------------------------------- sequences
Range(s)      == { s[i] : i \in 1..Len(s) }
Last(s)       == s[Len(s)]
RemoveAt(s, i) == SubSeq(s, 1, i - 1) \o SubSeq(s, i + 1, Len(s))
\* Array.prototype.findIndex on the id field: the first index, or 0 for -1
FindIndex(s, id) ==
  IF \E i \in 1..Len(s) : s[i].id = id
  THEN CHOOSE i \in 1..Len(s) : s[i].id = id /\ \A j \in 1..(i - 1) : s[j].id # id
  ELSE 0
\* ids.forEach(id => { idx = findIndex(id); if (idx !== -1) splice(idx, 1) }):
\* for each id in turn, the FIRST entry carrying it is removed
\* a slip: the loop ends at the first id that is not found
RECURSIVE SpliceEachUntilAbsent(_, _)
SpliceEachUntilAbsent(s, ids) ==
  IF ids = << >> \/ FindIndex(s, Head(ids)) = 0 THEN s
  ELSE SpliceEachUntilAbsent(RemoveAt(s, FindIndex(s, Head(ids))), Tail(ids))
RECURSIVE SpliceEach(_, _)
SpliceEach(s, ids) ==
  IF ids = << >> THEN s
  ELSE LET idx == FindIndex(s, Head(ids))
       IN  SpliceEach(IF idx # 0 THEN RemoveAt(s, idx) ELSE s, Tail(ids))
\* for (i = length-1 .. 0) if (ids.includes(s[i].id)) splice(i, 1):
\* EVERY entry whose id is listed is removed (the clients' removal)
RECURSIVE SpliceAll(_, _)
SpliceAll(s, ids) ==
  IF s = << >> THEN << >>
  ELSE (IF Head(s).id \in Range(ids) THEN << >> ELSE << Head(s) >>)
       \o SpliceAll(Tail(s), ids)
Max(S) == CHOOSE m \in S : \A k \in S : k <= m
Min(S) == CHOOSE m \in S : \A k \in S : m <= k

\* ------------------------------------------------------------ emissions
\* one emit of a server turn; `to` is the set of sockets it is written to
Msg(to, event, data) == [to |-> to, event |-> event, data |-> data]
IoEmit(event, data)        == Msg(sockets, event, data)          \* io.emit
\* a slip: socket.emit where socket.broadcast.emit is meant
BroadcastToSender(c, event, data) == Msg({c}, event, data)
Broadcast(c, event, data)  == Msg(sockets \ {c}, event, data)    \* socket.broadcast.emit
SocketEmit(c, event, data) == Msg({c}, event, data)              \* socket.emit
NoData == [none |-> TRUE]                                        \* an emit without payload

\* --------------------------------------------------- recorder and aliasing
\* JSON.parse(JSON.stringify(v)): the payloads and collections of the model
\* are plain JSON data (finite numbers, strings, arrays, objects with string
\* keys that are not integers), on which the round trip yields an equal,
\* unshared value.
JsonCopy(v) == v
\* Object.values(state.tokens): tokens are kept in insertion order already
ObjectValues(toks) == toks

\* A timeline entry { t, event, data }.  `live` is the one aliasing the code
\* has: token-add stores the SAME object in state.tokens[id] and in the entry,
\* so while that object is still the one held by state.tokens, token-move and
\* token-relabel write through to the entry.  live = TRUE marks such an entry.
Entry(t, event, data, live) == [t |-> t, event |-> event, data |-> data, live |-> live]

\* a slip: the entry is appended whether or not a recording is running
recordEventWhenIdle(r, event, data, live) ==
  [r EXCEPT !.timeline = Append(@, Entry(now - r.start, event, data, live))]

\* recordEvent(event, data)
recordEvent(r, event, data, live) ==
  IF ~r.active THEN r
  ELSE [r EXCEPT !.timeline = Append(@, Entry(now - r.start, event, data, live))]

\* the write state.tokens[id].x = x; .y = y seen through the aliases of a timeline
WriteThroughPos(tl, id, x, y) ==
  [ i \in 1..Len(tl) |->
      IF tl[i].live /\ tl[i].data.id = id
      THEN [tl[i] EXCEPT !.data.x = x, !.data.y = y] ELSE tl[i] ]
\* the write state.tokens[id].label = label seen through the aliases
WriteThroughLabel(tl, id, label) ==
  [ i \in 1..Len(tl) |->
      IF tl[i].live /\ tl[i].data.id = id
      THEN [tl[i] EXCEPT !.data.label = label] ELSE tl[i] ]
\* state.tokens drops the object with this id (delete, or overwrite of the key):
\* the entry keeps its object, which nothing writes any more
Unshare(tl, id) ==
  [ i \in 1..Len(tl) |->
      IF tl[i].live /\ tl[i].data.id = id THEN [tl[i] EXCEPT !.live = FALSE] ELSE tl[i] ]
\* state.tokens is replaced as a whole ({} or a JSON copy)
UnshareAll(tl) == [ i \in 1..Len(tl) |-> [tl[i] EXCEPT !.live = FALSE] ]

\* a write w to state.tokens, seen through the aliases of timeline tl
WriteThrough(tl, w) ==
  CASE w.op = "pos"   -> WriteThroughPos(tl, w.id, w.x, w.y)
    [] w.op = "label" -> WriteThroughLabel(tl, w.id, w.label)
    [] w.op = "drop"  -> Unshare(tl, w.id)
    [] w.op = "reset" -> UnshareAll(tl)
\* the timelines reachable from the program: rec.timeline and each stored
\* recording's (after recording-stop both name the same array)
InRec(w) == [rec EXCEPT !.timeline = WriteThrough(@, w)]
InRecordings(w) ==
  [ k \in 1..Len(recordings) |-> [recordings[k] EXCEPT !.timeline = WriteThrough(@, w)] ]

\* a slip: the tokens are left out of the snapshot
snapStateWithoutTokens ==
  [ strokes |-> JsonCopy(strokes), arrows |-> JsonCopy(arrows), tokens |-> << >> ]
\* snapState()
snapState ==
  [ strokes |-> JsonCopy(strokes), arrows |-> JsonCopy(arrows), tokens |-> JsonCopy(tokens) ]

\* getRecordingsList() (name and timestamp, display data, are not modelled)
getRecordingsList(recs) ==
  [ k \in 1..Len(recs) |->
      [ id |-> recs[k].id, name |-> recs[k].name,
        duration |-> recs[k].duration, eventCount |-> recs[k].eventCount ] ]

\* ------------------------------------------------- persistence gateway
\* The recordings and presets tables of the database and the two backup
\* files. dbUp: a query succeeds (FALSE also stands for a server without a
\* database, where the write is skipped); fileUp: writeFileSync succeeds.
\* Every write catches its error, logs it and returns. The write that a
\* handler starts is completed within the handler's step.
EmptyGateway ==
  [ dbUp |-> TRUE, fileUp |-> TRUE,
    recordingsTable |-> << >>, presetsTable |-> << >>,
    RECORDINGS_FILE |-> Null, PRESETS_FILE |-> Null ]

\* JSON.stringify of a recording: the text shares nothing with the board
StoredRecording(r) == [r EXCEPT !.timeline = UnshareAll(@)]
StoredRecordings(recs) == [ k \in 1..Len(recs) |-> StoredRecording(recs[k]) ]

\* addRecordingToDB(): INSERT; a row with this id (the primary key) rejects it
addRecordingToDB(gw, recording) ==
  IF gw.dbUp /\ FindIndex(gw.recordingsTable, recording.id) = 0
  THEN [gw EXCEPT !.recordingsTable = Append(@, StoredRecording(recording))]
  ELSE gw
\* updateRecordingInDB(): UPDATE ... SET name WHERE id
updateRecordingInDB(gw, recording) ==
  IF gw.dbUp
  THEN [gw EXCEPT !.recordingsTable =
          [ k \in 1..Len(@) |-> IF @[k].id = recording.id
                                THEN [@[k] EXCEPT !.name = recording.name] ELSE @[k] ]]
  ELSE gw
\* deleteRecordingFromDB(): DELETE ... WHERE id
deleteRecordingFromDB(gw, recId) ==
  IF gw.dbUp THEN [gw EXCEPT !.recordingsTable = SpliceAll(@, << recId >>)] ELSE gw
\* saveRecordings(): the whole list and the counter go to the file
saveRecordings(gw, recs, nextId) ==
  IF gw.fileUp
  THEN [gw EXCEPT !.RECORDINGS_FILE = [ recordings |-> StoredRecordings(recs), nextId |-> nextId ]]
  ELSE gw

\* addPresetToDB(): INSERT
addPresetToDB(gw, preset) ==
  IF gw.dbUp /\ FindIndex(gw.presetsTable, preset.id) = 0
  THEN [gw EXCEPT !.presetsTable = Append(@, preset)]
  ELSE gw
\* updatePresetInDB(): UPDATE ... SET name, data WHERE id
updatePresetInDB(gw, preset) ==
  IF gw.dbUp
  THEN [gw EXCEPT !.presetsTable =
          [ k \in 1..Len(@) |-> IF @[k].id = preset.id THEN preset ELSE @[k] ]]
  ELSE gw
\* deletePresetFromDB(): DELETE ... WHERE id
deletePresetFromDB(gw, presetId) ==
  IF gw.dbUp THEN [gw EXCEPT !.presetsTable = SpliceAll(@, << presetId >>)] ELSE gw
\* savePresets(): the whole list and the counter go to the file
savePresets(gw, presets, nextId) ==
  IF gw.fileUp
  THEN [gw EXCEPT !.PRESETS_FILE = [ presets |-> presets, nextId |-> nextId ]]
  ELSE gw

\* SELECT * ... ORDER BY id ASC: the rows by rising id (ids are the primary key)
RECURSIVE RowsById(_)
RowsById(rows) ==
  IF rows = << >> THEN << >>
  ELSE LET i == CHOOSE k \in 1..Len(rows) : \A j \in 1..Len(rows) : rows[k].id <= rows[j].id
       IN  << rows[i] >> \o RowsById(RemoveAt(rows, i))
\* what a load leaves in the list and in the counter
LoadResult(list, nextId) == [ list |-> list, nextId |-> nextId ]
\* the counter after a load from the database: one more than the greatest id
\* of the rows, and the initial 1 when there is no row
NextIdOfRows(rows) ==
  IF rows # << >> THEN Max({ rows[k].id : k \in 1..Len(rows) }) + 1 ELSE 1

\* loadRecordings(): from the database when the query succeeds, else from the
\* file when it exists and can be read, else the initial empty list
loadRecordings(gw) ==
  IF gw.dbUp
  THEN LoadResult(RowsById(gw.recordingsTable), NextIdOfRows(gw.recordingsTable))
  ELSE IF gw.fileUp /\ gw.RECORDINGS_FILE # Null
       THEN LoadResult(gw.RECORDINGS_FILE.recordings, gw.RECORDINGS_FILE.nextId)
       ELSE LoadResult(<< >>, 1)

\* a slip: the counter after a load is taken from the number of rows
loadPresetsCountingRows(gw) ==
  IF gw.dbUp
  THEN LoadResult(RowsById(gw.presetsTable), Len(gw.presetsTable) + 1)
  ELSE IF gw.fileUp /\ gw.PRESETS_FILE # Null
       THEN LoadResult(gw.PRESETS_FILE.presets, gw.PRESETS_FILE.nextId)
       ELSE LoadResult(<< >>, 1)

\* loadPresets()
loadPresets(gw) ==
  IF gw.dbUp
  THEN LoadResult(RowsById(gw.presetsTable), NextIdOfRows(gw.presetsTable))
  ELSE IF gw.fileUp /\ gw.PRESETS_FILE # Null
       THEN LoadResult(gw.PRESETS_FILE.presets, gw.PRESETS_FILE.nextId)
       ELSE LoadResult(<< >>, 1)

\* a slip: the colour is chosen by the size of the roster
getNextColorByRoster == USER_COLORS[(Len(users) % Len(USER_COLORS)) + 1]

\* getNextColor(): the colour handed out; the caller advances colorIndex
getNextColor == USER_COLORS[(colorIndex % Len(USER_COLORS)) + 1]

\* ------------------------------------------------------------------ Init
NoClient == [ myId |-> "", myColor |-> "#ffffff",
              allStrokes |-> << >>, allArrows |-> << >>, tokens |-> << >>,
              myUndoStack |-> << >>, strokeSeq |-> 0, arrowSeq |-> 0 ]

Init ==
  /\ sockets = {} /\ users = << >> /\ colorIndex = 0
  /\ strokes = << >> /\ arrows = << >> /\ tokens = << >>
  /\ nextTokenId = 1 /\ nextArrowId = 1
  /\ rec = [ active |-> FALSE, start |-> 0, snapshot |-> Null, timeline |-> << >> ]
  /\ rep = [ active |-> FALSE, timers |-> << >>, preSnap |-> Null, currentRecId |-> NoRec ]
  /\ recordings = << >> /\ nextRecId = 1
  /\ boardPresets = << >> /\ nextPresetId = 1 /\ gateway = EmptyGateway
  /\ now = 0 /\ timerq = << >> /\ emitted = << >>
  /\ cl = [ c \in Conns |-> NoClient ]
  /\ toServer = [ c \in Conns |-> << >> ]
  /\ toClient = [ c \in Conns |-> << >> ]
  /\ issued = [ tokens |-> << >>, arrows |-> << >> ] /\ replayLog = << >> /\ inputs = 0

\* ------------------------------------------------- server: session handlers
\* io.on('connection'): the socket becomes a receiver of broadcasts
OnConnection(c) ==
  /\ c \notin sockets
  /\ sockets' = sockets \cup {c}
  /\ emitted' = << >>
  /\ UNCHANGED << users, colorIndex, docVars, idVars, recVars, repVars, presetVars, gateway, now, issued >>

\* the roster after join: any entry of this socket is deleted, the new one added
JoinedUsers(c, username) ==
  LET kept == SpliceAll(users, << c >>)
  IN  Append(kept, [ id |-> c, username |-> username, color |-> getNextColor ])

\* a slip: the payload is built from the roster as it was before the join
InitStateBeforeJoin(c, us) ==
  [ strokes |-> strokes,
    tokens  |-> ObjectValues(tokens),
    arrows  |-> arrows,
    users   |-> users,
    you     |-> us[FindIndex(us, c)] ]

\* the init-state payload, built after the roster was updated
InitState(c, us) ==
  [ strokes |-> strokes,
    tokens  |-> ObjectValues(tokens),
    arrows  |-> arrows,
    users   |-> us,
    you     |-> us[FindIndex(us, c)] ]

\* socket.on('join')
OnJoin(c, username) ==
  LET us == JoinedUsers(c, username)
      me == us[FindIndex(us, c)]
  IN  /\ users' = us
      /\ colorIndex' = colorIndex + 1
      /\ emitted' = << SocketEmit(c, "init-state", InitState(c, us)),
                       Broadcast(c, "user-joined", me),
                       Broadcast(c, "user-list", us) >>
      /\ UNCHANGED << sockets, docVars, idVars, recVars, repVars, presetVars, gateway, now, issued >>

\* a slip: the departed connection's entry is not deleted
OnDisconnectKeepsUser(c) ==
  LET departed == { users[k] : k \in { i \in 1..Len(users) : users[i].id = c } }
  IN  /\ c \in sockets
      /\ sockets' = sockets \ {c}
      /\ users' = users
      /\ emitted' = << Broadcast(c, "cursor-remove", [socketId |-> c]) >>
                     \o (IF departed # {}
                         THEN << Broadcast(c, "user-left", users[FindIndex(users, c)]) >>
                         ELSE << >>)
                     \o << Broadcast(c, "user-list", users') >>
      /\ UNCHANGED << colorIndex, docVars, idVars, recVars, repVars, presetVars, gateway, now, issued >>

\* a slip: the roster is sent before the departed entry is deleted
OnDisconnectListsFirst(c) ==
  LET departed == { users[k] : k \in { i \in 1..Len(users) : users[i].id = c } }
  IN  /\ c \in sockets
      /\ sockets' = sockets \ {c}
      /\ users' = SpliceAll(users, << c >>)
      /\ emitted' = << Broadcast(c, "cursor-remove", [socketId |-> c]) >>
                     \o (IF departed # {}
                         THEN << Broadcast(c, "user-left", users[FindIndex(users, c)]) >>
                         ELSE << >>)
                     \o << Broadcast(c, "user-list", users) >>
      /\ UNCHANGED << colorIndex, docVars, idVars, recVars, repVars, presetVars, gateway, now, issued >>

\* socket.on('disconnect'): the socket is gone, its roster entry is deleted,
\* and the others are told
OnDisconnect(c) ==
  LET departed == { users[k] : k \in { i \in 1..Len(users) : users[i].id = c } }
  IN  /\ c \in sockets
      /\ sockets' = sockets \ {c}
      /\ users' = SpliceAll(users, << c >>)
      /\ emitted' = << Broadcast(c, "cursor-remove", [socketId |-> c]) >>
                     \o (IF departed # {}
                         THEN << Broadcast(c, "user-left", users[FindIndex(users, c)]) >>
                         ELSE << >>)
                     \o << Broadcast(c, "user-list", users') >>
      /\ UNCHANGED << colorIndex, docVars, idVars, recVars, repVars, presetVars, gateway, now, issued >>

\* ------------------------------------------------ server: document handlers
\* a slip: io.emit where socket.broadcast.emit is meant
OnStrokeDoneToAll(c, stroke) ==
  LET saved == [stroke EXCEPT !.socketId = c]
  IN  /\ strokes' = Append(strokes, saved)
      /\ emitted' = << IoEmit("stroke-done", saved) >>
      /\ rec' = recordEvent(rec, "stroke-done", saved, FALSE)
      /\ UNCHANGED << arrows, tokens, idVars, sessVars, recordings, nextRecId,
                      repVars, presetVars, gateway, now, issued >>

\* socket.on('stroke-done'): saved = { ...stroke, socketId: socket.id }
OnStrokeDone(c, stroke) ==
  LET saved == [stroke EXCEPT !.socketId = c]
  IN  /\ strokes' = Append(strokes, saved)
      /\ emitted' = << Broadcast(c, "stroke-done", saved) >>
      /\ rec' = recordEvent(rec, "stroke-done", saved, FALSE)
      /\ UNCHANGED << arrows, tokens, idVars, sessVars, recordings, nextRecId,
                      repVars, presetVars, gateway, now, issued >>

\* socket.on('stroke-remove')
OnStrokeRemove(c, ids) ==
  /\ strokes' = SpliceEach(strokes, ids)
  /\ emitted' = << IoEmit("stroke-remove", [ids |-> ids]) >>
  /\ rec' = recordEvent(rec, "stroke-remove", [ids |-> ids], FALSE)
  /\ UNCHANGED << arrows, tokens, idVars, sessVars, recordings, nextRecId,
                  repVars, presetVars, gateway, now, issued >>

\* a slip: the id is taken from the number of tokens on the board
TokenIdBySize(n) == "t" \o ToString(Len(tokens) + 1)

\* the id token-add assigns: `t${nextTokenId++}`
TokenId(n) == "t" \o ToString(n)
\* a slip: arrow ids are numbered by the token counter
ArrowIdByTokenCounter(n) == "ar" \o ToString(nextTokenId)
\* the id arrow-done assigns: `ar${nextArrowId++}`
ArrowId(n) == "ar" \o ToString(n)

\* state.tokens[id] = tok: a new key goes last, an existing key keeps its place
PutToken(toks, tok) ==
  LET idx == FindIndex(toks, tok.id)
  IN  IF idx = 0 THEN Append(toks, tok) ELSE [toks EXCEPT ![idx] = tok]

\* socket.on('token-add'): the stored object is also the recorded payload
OnTokenAdd(c, token) ==
  LET id       == TokenId(nextTokenId)
      newToken == [ id |-> id, x |-> token.x, y |-> token.y, label |-> token.label,
                    createdBy |-> token.createdBy ]
      cut      == InRec([op |-> "drop", id |-> id])
  IN  /\ nextTokenId' = nextTokenId + 1
      /\ tokens' = PutToken(tokens, newToken)
      /\ emitted' = << IoEmit("token-add", newToken) >>
      /\ rec' = recordEvent(cut, "token-add", newToken, TRUE)
      /\ recordings' = InRecordings([op |-> "drop", id |-> id])
      /\ issued' = [issued EXCEPT !.tokens = Append(@, id)]
      /\ UNCHANGED << strokes, arrows, nextArrowId, sessVars, nextRecId,
                      repVars, presetVars, gateway, now >>

\* socket.on('token-move'): writes x and y into the stored object in place
OnTokenMove(c, id, x, y) ==
  LET idx == FindIndex(tokens, id)
  IN  /\ IF idx # 0
         THEN /\ tokens' = [tokens EXCEPT ![idx].x = x, ![idx].y = y]
              /\ emitted' = << Broadcast(c, "token-move", [id |-> id, x |-> x, y |-> y]) >>
              /\ rec' = recordEvent(InRec([op |-> "pos", id |-> id, x |-> x, y |-> y]),
                                    "token-move", [id |-> id, x |-> x, y |-> y], FALSE)
              /\ recordings' = InRecordings([op |-> "pos", id |-> id, x |-> x, y |-> y])
         ELSE /\ emitted' = << >>
              /\ UNCHANGED << tokens, rec, recordings >>
      /\ UNCHANGED << strokes, arrows, idVars, sessVars, nextRecId,
                      repVars, presetVars, gateway, now, issued >>

\* socket.on('token-remove'): delete state.tokens[id]
OnTokenRemove(c, id) ==
  /\ tokens' = SpliceAll(tokens, << id >>)
  /\ emitted' = << IoEmit("token-remove", [id |-> id]) >>
  /\ rec' = recordEvent(InRec([op |-> "drop", id |-> id]), "token-remove", [id |-> id], FALSE)
  /\ recordings' = InRecordings([op |-> "drop", id |-> id])
  /\ UNCHANGED << strokes, arrows, idVars, sessVars, nextRecId,
                  repVars, presetVars, gateway, now, issued >>

\* socket.on('token-relabel'): emitted and recorded also for an unknown id
OnTokenRelabel(c, id, label) ==
  LET idx == FindIndex(tokens, id)
  IN  /\ tokens' = IF idx # 0 THEN [tokens EXCEPT ![idx].label = label] ELSE tokens
      /\ emitted' = << IoEmit("token-relabel", [id |-> id, label |-> label]) >>
      /\ rec' = recordEvent(InRec([op |-> "label", id |-> id, label |-> label]),
                            "token-relabel", [id |-> id, label |-> label], FALSE)
      /\ recordings' = InRecordings([op |-> "label", id |-> id, label |-> label])
      /\ UNCHANGED << strokes, arrows, idVars, sessVars, nextRecId,
                      repVars, presetVars, gateway, now, issued >>

\* the arrow as stored: { ...arrow, id: `ar${nextArrowId++}`, socketId: socket.id }
SavedArrow(c, arrow) == [arrow EXCEPT !.id = ArrowId(nextArrowId), !.socketId = c]

\* a slip: the canonical arrow goes to every socket, the origin included
ArrowDoneEmitsToAll(c, arrow, saved) ==
  << IoEmit("arrow-done", saved),
     SocketEmit(c, "arrow-confirmed", [tempId |-> arrow.id, arrow |-> saved]) >>

\* what arrow-done emits: the canonical arrow to the others, the pairing to the origin
ArrowDoneEmits(c, arrow, saved) ==
  << Broadcast(c, "arrow-done", saved),
     SocketEmit(c, "arrow-confirmed", [tempId |-> arrow.id, arrow |-> saved]) >>

\* socket.on('arrow-done')
OnArrowDone(c, arrow) ==
  LET saved == SavedArrow(c, arrow)
  IN  /\ nextArrowId' = nextArrowId + 1
      /\ arrows' = Append(arrows, saved)
      /\ emitted' = ArrowDoneEmits(c, arrow, saved)
      /\ rec' = recordEvent(rec, "arrow-done", saved, FALSE)
      /\ issued' = [issued EXCEPT !.arrows = Append(@, saved.id)]
      /\ UNCHANGED << strokes, tokens, nextTokenId, sessVars, recordings, nextRecId,
                      repVars, presetVars, gateway, now >>

\* socket.on('arrow-remove')
OnArrowRemove(c, ids) ==
  /\ arrows' = SpliceEach(arrows, ids)
  /\ emitted' = << IoEmit("arrow-remove", [ids |-> ids]) >>
  /\ rec' = recordEvent(rec, "arrow-remove", [ids |-> ids], FALSE)
  /\ UNCHANGED << strokes, tokens, idVars, sessVars, recordings, nextRecId,
                  repVars, presetVars, gateway, now, issued >>

\* a slip: state.tokens is not reset
OnClearBoardKeepsTokens(c) ==
  /\ strokes' = << >> /\ arrows' = << >>
  /\ emitted' = << IoEmit("clear-board", NoData), IoEmit("tokens-cleared", NoData) >>
  /\ rec' = recordEvent(recordEvent(rec, "clear-board", NoData, FALSE),
                        "tokens-cleared", NoData, FALSE)
  /\ UNCHANGED << tokens, idVars, sessVars, recordings, nextRecId,
                  repVars, presetVars, gateway, now, issued >>
\* socket.on('clear-board'): two emits, two timeline entries
OnClearBoard(c) ==
  /\ strokes' = << >> /\ arrows' = << >> /\ tokens' = << >>
  /\ emitted' = << IoEmit("clear-board", NoData), IoEmit("tokens-cleared", NoData) >>
  /\ rec' = recordEvent(recordEvent(InRec([op |-> "reset"]), "clear-board", NoData, FALSE),
                        "tokens-cleared", NoData, FALSE)
  /\ recordings' = InRecordings([op |-> "reset"])
  /\ UNCHANGED << idVars, sessVars, nextRecId, repVars, presetVars, gateway, now, issued >>

\* a slip: clear-drawings handled as clear-board is
OnClearDrawingsWipesTokens(c) == OnClearBoard(c)
\* socket.on('clear-drawings'): tokens stay; the emit is 'clear-board'
OnClearDrawings(c) ==
  /\ strokes' = << >> /\ arrows' = << >>
  /\ emitted' = << IoEmit("clear-board", NoData) >>
  /\ rec' = recordEvent(rec, "clear-board", NoData, FALSE)
  /\ UNCHANGED << tokens, idVars, sessVars, recordings, nextRecId,
                  repVars, presetVars, gateway, now, issued >>

\* --------------------------------------------------- server: board presets
\* the payload of replay-init, replay-restore and preset-loaded
SnapshotPayload(s) ==
  [ strokes |-> s.strokes, arrows |-> s.arrows, tokens |-> ObjectValues(s.tokens) ]

\* getBoardPresetsList() (the timestamp, display data, is not modelled)
getBoardPresetsList(ps) ==
  [ k \in 1..Len(ps) |->
      [ id |-> ps[k].id, name |-> ps[k].name, strokeCount |-> Len(ps[k].strokes),
        arrowCount |-> Len(ps[k].arrows), tokenCount |-> Len(ps[k].tokens) ] ]

\* a slip: the preset is stored without the tokens
OnSavePresetWithoutTokens(c) ==
  LET preset == [ id |-> nextPresetId, name |-> "Preset", strokes |-> JsonCopy(strokes),
                  arrows |-> JsonCopy(arrows), tokens |-> << >> ]
  IN  /\ nextPresetId' = nextPresetId + 1
      /\ boardPresets' = Append(boardPresets, preset)
      /\ emitted' = << IoEmit("presets-list", getBoardPresetsList(boardPresets')),
                       SocketEmit(c, "preset-saved", [id |-> preset.id]) >>
      /\ gateway' = savePresets(addPresetToDB(gateway, preset), boardPresets', nextPresetId')
      /\ UNCHANGED << docVars, idVars, sessVars, recVars, repVars, now, issued >>

\* socket.on('save-preset'), sent without a name: the preset gets the default
\* name (its date part is not modelled)
OnSavePreset(c) ==
  LET preset == [ id |-> nextPresetId, name |-> "Preset", strokes |-> JsonCopy(strokes),
                  arrows |-> JsonCopy(arrows), tokens |-> JsonCopy(tokens) ]
  IN  /\ nextPresetId' = nextPresetId + 1
      /\ boardPresets' = Append(boardPresets, preset)
      /\ emitted' = << IoEmit("presets-list", getBoardPresetsList(boardPresets')),
                       SocketEmit(c, "preset-saved", [id |-> preset.id]) >>
      /\ gateway' = savePresets(addPresetToDB(gateway, preset), boardPresets', nextPresetId')
      /\ UNCHANGED << docVars, idVars, sessVars, recVars, repVars, now, issued >>

\* socket.on('load-preset'): the board becomes a copy of the preset; nothing
\* is recorded
OnLoadPreset(c, presetId) ==
  LET idx == FindIndex(boardPresets, presetId)
  IN  /\ IF idx = 0
         THEN /\ emitted' = << >>
              /\ UNCHANGED << docVars, rec, recordings >>
         ELSE LET preset == boardPresets[idx]
              IN  /\ strokes' = JsonCopy(preset.strokes)
                  /\ arrows'  = JsonCopy(preset.arrows)
                  /\ tokens'  = JsonCopy(preset.tokens)
                  /\ rec' = InRec([op |-> "reset"])
                  /\ recordings' = InRecordings([op |-> "reset"])
                  /\ emitted' = << IoEmit("clear-board", NoData),
                                   IoEmit("tokens-cleared", NoData),
                                   IoEmit("preset-loaded", SnapshotPayload(preset)) >>
      /\ UNCHANGED << idVars, sessVars, nextRecId, repVars, presetVars, gateway, now, issued >>

\* socket.on('rename-preset')
OnRenamePreset(c, presetId, newName) ==
  LET idx == FindIndex(boardPresets, presetId)
  IN  /\ IF idx = 0
         THEN /\ emitted' = << >>
              /\ UNCHANGED << boardPresets, gateway >>
         ELSE /\ boardPresets' = [boardPresets EXCEPT ![idx].name = newName]
              /\ gateway' = savePresets(updatePresetInDB(gateway, boardPresets'[idx]),
                                        boardPresets', nextPresetId)
              /\ emitted' = << IoEmit("presets-list", getBoardPresetsList(boardPresets')) >>
      /\ UNCHANGED << docVars, idVars, sessVars, recVars, repVars, nextPresetId,
                      now, issued >>

\* socket.on('delete-preset')
OnDeletePreset(c, presetId) ==
  LET idx == FindIndex(boardPresets, presetId)
  IN  /\ IF idx = 0
         THEN /\ emitted' = << >>
              /\ UNCHANGED << boardPresets, gateway >>
         ELSE /\ boardPresets' = RemoveAt(boardPresets, idx)
              /\ gateway' = savePresets(deletePresetFromDB(gateway, presetId),
                                        boardPresets', nextPresetId)
              /\ emitted' = << IoEmit("presets-list", getBoardPresetsList(boardPresets')) >>
      /\ UNCHANGED << docVars, idVars, sessVars, recVars, repVars, nextPresetId,
                      now, issued >>

\* ------------------------------------------------ server: recorder handlers
\* a slip: a running replay does not keep a recording from starting
OnRecordingStartIgnoresReplay(c) ==
  /\ IF rec.active
     THEN /\ emitted' = << >>
          /\ UNCHANGED rec
     ELSE /\ rec' = [ active |-> TRUE, start |-> now, timeline |-> << >>,
                      snapshot |-> snapState ]
          /\ emitted' = << IoEmit("recording-started", NoData) >>
  /\ UNCHANGED << docVars, idVars, sessVars, recordings, nextRecId,
                  repVars, presetVars, gateway, now, issued >>

\* socket.on('recording-start')
OnRecordingStart(c) ==
  /\ IF rec.active \/ rep.active
     THEN /\ emitted' = << >>
          /\ UNCHANGED rec
     ELSE /\ rec' = [ active |-> TRUE, start |-> now, timeline |-> << >>,
                      snapshot |-> snapState ]
          /\ emitted' = << IoEmit("recording-started", NoData) >>
  /\ UNCHANGED << docVars, idVars, sessVars, recordings, nextRecId,
                  repVars, presetVars, gateway, now, issued >>

\* a slip: the time elapsed since recording-start
DurationElapsed(tl) == now - rec.start

\* duration of a timeline: the last entry's offset, 0 when there is none
Duration(tl) == IF Len(tl) # 0 THEN tl[Len(tl)].t ELSE 0

\* a slip: the recording is kept and announced only when the insert succeeds
OnRecordingStopIfInserted(c) ==
  /\ IF ~rec.active \/ ~gateway.dbUp
     THEN /\ emitted' = << >>
          /\ rec' = [rec EXCEPT !.active = FALSE]
          /\ UNCHANGED << recordings, nextRecId, gateway >>
     ELSE LET savedRec == [ id |-> nextRecId, name |-> "Recording",
                            duration |-> Duration(rec.timeline),
                            eventCount |-> Len(rec.timeline),
                            snapshot |-> rec.snapshot, timeline |-> rec.timeline ]
          IN  /\ rec' = [rec EXCEPT !.active = FALSE]
              /\ nextRecId' = nextRecId + 1
              /\ recordings' = Append(recordings, savedRec)
              /\ gateway' = saveRecordings(addRecordingToDB(gateway, savedRec),
                                           recordings', nextRecId')
              /\ emitted' = << IoEmit("recording-saved",
                                      getRecordingsList(Append(recordings, savedRec))) >>
  /\ UNCHANGED << docVars, idVars, sessVars, repVars, presetVars, now, issued >>

\* socket.on('recording-stop'); the name is the default one (its date part
\* is not modelled)
OnRecordingStop(c) ==
  /\ IF ~rec.active
     THEN /\ emitted' = << >>
          /\ UNCHANGED << rec, recordings, nextRecId, gateway >>
     ELSE LET savedRec == [ id |-> nextRecId, name |-> "Recording",
                            duration |-> Duration(rec.timeline),
                            eventCount |-> Len(rec.timeline),
                            snapshot |-> rec.snapshot, timeline |-> rec.timeline ]
          IN  /\ rec' = [rec EXCEPT !.active = FALSE]
              /\ nextRecId' = nextRecId + 1
              /\ recordings' = Append(recordings, savedRec)
              /\ gateway' = saveRecordings(addRecordingToDB(gateway, savedRec),
                                           recordings', nextRecId')
              /\ emitted' = << IoEmit("recording-saved",
                                      getRecordingsList(Append(recordings, savedRec))) >>
  /\ UNCHANGED << docVars, idVars, sessVars, repVars, presetVars, now, issued >>

\* socket.on('rename-recording')
OnRenameRecording(c, recId, newName) ==
  LET idx == FindIndex(recordings, recId)
  IN  /\ IF idx = 0
         THEN /\ emitted' = << >>
              /\ UNCHANGED << recordings, gateway >>
         ELSE /\ recordings' = [recordings EXCEPT ![idx].name = newName]
              /\ gateway' = saveRecordings(updateRecordingInDB(gateway, recordings'[idx]),
                                           recordings', nextRecId)
              /\ emitted' = << IoEmit("recordings-list", getRecordingsList(recordings')) >>
      /\ UNCHANGED << docVars, idVars, sessVars, rec, nextRecId, repVars, presetVars,
                      now, issued >>

\* socket.on('delete-recording')
OnDeleteRecording(c, recId) ==
  LET idx == FindIndex(recordings, recId)
  IN  /\ IF idx = 0
         THEN /\ emitted' = << >>
              /\ UNCHANGED << recordings, gateway >>
         ELSE /\ recordings' = RemoveAt(recordings, idx)
              /\ gateway' = saveRecordings(deleteRecordingFromDB(gateway, recId),
                                           recordings', nextRecId)
              /\ emitted' = << IoEmit("recordings-list", getRecordingsList(recordings')) >>
      /\ UNCHANGED << docVars, idVars, sessVars, rec, nextRecId, repVars, presetVars,
                      now, issued >>

\* -------------------------------------------------- server: replay engine
\* a pending setTimeout callback.  The closures of replay-start read
\* recording.snapshot and entry.data when they run; both are values that no
\* statement writes after replay-start (the write-through aliases of the
\* timelines end where replay-start replaces state.tokens), so the timer
\* carries them.
Timer(id, due, kind, event, data) ==
  [ id |-> id, due |-> due, kind |-> kind, event |-> event, data |-> data ]

\* a handle that no pending timer has
FreshHandle == IF timerq = << >> THEN 1 ELSE Max({ t.id : t \in Range(timerq) }) + 1

\* the timers replay-start creates, in creation order: the replay-init
\* hydration, one per timeline entry, and the terminal one
\* a slip: the hydration is delayed beyond the entries' lead-in
InitTimerAfterLead(recording, h) ==
  Timer(h, now + EntryLeadMs + InitDelayMs, "init", "replay-init",
        SnapshotPayload(recording.snapshot))
InitTimer(recording, h) ==
  Timer(h, now + InitDelayMs, "init", "replay-init", SnapshotPayload(recording.snapshot))
EntryTimer(recording, i, h) ==
  Timer(h + i, now + recording.timeline[i].t + EntryLeadMs, "entry",
        recording.timeline[i].event, recording.timeline[i].data)
\* a slip: the terminal timer forgets the recording's duration
EndTimerNoDuration(recording, h) ==
  Timer(h + Len(recording.timeline) + 1, now + EndTrailMs, "end", "finishReplay", NoData)
EndTimer(recording, h) ==
  Timer(h + Len(recording.timeline) + 1, now + recording.duration + EndTrailMs,
        "end", "finishReplay", NoData)
\* the handles pushed to rep.timers: the entries' and the terminal one's
TrackedHandles(recording, h) ==
  [ i \in 1..(Len(recording.timeline) + 1) |-> h + i ]

\* rep.preSnap as replay-start sets it
PreSnap == snapState

\* a slip: a replay-start is accepted while a replay is running
OnReplayStartWhileActive(c, recId) ==
  LET idx == FindIndex(recordings, recId)
  IN  /\ IF idx = 0
         THEN /\ emitted' = << >>
              /\ UNCHANGED << docVars, rec, recordings, rep, timerq, replayLog >>
         ELSE LET recording == recordings[idx]
                  h == FreshHandle
              IN  /\ rep' = [ active |-> TRUE, currentRecId |-> recId, preSnap |-> PreSnap,
                              timers |-> TrackedHandles(recording, h) ]
                  /\ strokes' = JsonCopy(recording.snapshot.strokes)
                  /\ arrows'  = JsonCopy(recording.snapshot.arrows)
                  /\ tokens'  = JsonCopy(recording.snapshot.tokens)
                  /\ rec' = InRec([op |-> "reset"])
                  /\ recordings' = InRecordings([op |-> "reset"])
                  /\ emitted' = << IoEmit("clear-board", NoData),
                                   IoEmit("tokens-cleared", NoData),
                                   IoEmit("replay-started",
                                          [duration |-> recording.duration, recId |-> recId]) >>
                  /\ timerq' = timerq \o << InitTimer(recording, h) >>
                                 \o [ i \in 1..Len(recording.timeline) |->
                                        EntryTimer(recording, i, h) ]
                                 \o << EndTimer(recording, h) >>
                  /\ replayLog' = << >>
      /\ UNCHANGED << idVars, sessVars, nextRecId, presetVars, gateway, now, issued >>

\* socket.on('replay-start')
OnReplayStart(c, recId) ==
  LET idx == FindIndex(recordings, recId)
  IN  /\ IF rep.active \/ idx = 0
         THEN /\ emitted' = << >>
              /\ UNCHANGED << docVars, rec, recordings, rep, timerq, replayLog >>
         ELSE LET recording == recordings[idx]
                  h == FreshHandle
              IN  /\ rep' = [ active |-> TRUE, currentRecId |-> recId, preSnap |-> PreSnap,
                              timers |-> TrackedHandles(recording, h) ]
                  /\ strokes' = JsonCopy(recording.snapshot.strokes)
                  /\ arrows'  = JsonCopy(recording.snapshot.arrows)
                  /\ tokens'  = JsonCopy(recording.snapshot.tokens)
                  /\ rec' = InRec([op |-> "reset"])
                  /\ recordings' = InRecordings([op |-> "reset"])
                  /\ emitted' = << IoEmit("clear-board", NoData),
                                   IoEmit("tokens-cleared", NoData),
                                   IoEmit("replay-started",
                                          [duration |-> recording.duration, recId |-> recId]) >>
                  /\ timerq' = timerq \o << InitTimer(recording, h) >>
                                 \o [ i \in 1..Len(recording.timeline) |->
                                        EntryTimer(recording, i, h) ]
                                 \o << EndTimer(recording, h) >>
                  /\ replayLog' = << >>
      /\ UNCHANGED << idVars, sessVars, nextRecId, presetVars, gateway, now, issued >>

\* a slip: no timer is cancelled
ClearTimersKeepsAll(q, hs) == q

\* clearTimeout for every handle in hs
ClearTimers(q, hs) ==
  LET keep == { i \in 1..Len(q) : q[i].id \notin Range(hs) }
      F[i \in 0..Len(q)] ==
        IF i = 0 THEN << >>
        ELSE IF i \in keep THEN Append(F[i - 1], q[i]) ELSE F[i - 1]
  IN  F[Len(q)]

\* the end-of-replay procedure restoring snapshot s, on the timer queue q
FinishWith(s, q) ==
  /\ timerq' = ClearTimers(q, rep.timers)
  /\ rep' = [rep EXCEPT !.timers = << >>, !.active = FALSE, !.currentRecId = NoRec]
  /\ strokes' = s.strokes
  /\ arrows'  = s.arrows
  /\ tokens'  = s.tokens
  /\ rec' = InRec([op |-> "reset"])
  /\ recordings' = InRecordings([op |-> "reset"])
  /\ emitted' = << IoEmit("clear-board", NoData),
                   IoEmit("tokens-cleared", NoData),
                   IoEmit("replay-restore", SnapshotPayload(s)),
                   IoEmit("replay-done", NoData) >>

\* a slip: the store is put back to the base snapshot of the recording replayed
finishReplayToBase(q) ==
  FinishWith(recordings[FindIndex(recordings, rep.currentRecId)].snapshot, q)

\* finishReplay(), on the timer queue q.  state.* now name the arrays and the
\* object of rep.preSnap; rep.preSnap is not read again before replay-start
\* overwrites it, so it is kept as the value restored.
finishReplay(q) == FinishWith(rep.preSnap, q)

\* socket.on('replay-stop')
OnReplayStop(c) ==
  /\ IF rep.active
     THEN finishReplay(timerq)
     ELSE /\ emitted' = << >>
          /\ UNCHANGED << docVars, rec, recordings, rep, timerq >>
  /\ UNCHANGED << idVars, sessVars, nextRecId, replayLog, presetVars, gateway, now, issued >>

\* ---------------------------------------------------------- timers, clock
\* the timer the runtime runs next: the earliest due, the earliest created
\* among equals (0 when none is pending)
NextTimer ==
  IF timerq = << >> THEN 0
  ELSE CHOOSE i \in 1..Len(timerq) :
         \A j \in 1..Len(timerq) :
            \/ timerq[i].due < timerq[j].due
            \/ (timerq[i].due = timerq[j].due /\ i <= j)

\* a slip: the terminal callback does nothing
TimerFiresSkipsEnd ==
  /\ NextTimer # 0
  /\ timerq[NextTimer].due <= now
  /\ LET t    == timerq[NextTimer]
         rest == RemoveAt(timerq, NextTimer)
     IN  CASE t.kind = "init" ->
                /\ emitted' = << IoEmit("replay-init", t.data) >>
                /\ timerq' = rest
                /\ UNCHANGED << docVars, rec, recordings, rep, replayLog >>
           [] t.kind = "entry" ->
                /\ emitted' = << IoEmit(t.event, t.data) >>
                /\ timerq' = rest
                /\ replayLog' = Append(replayLog, IoEmit(t.event, t.data))
                /\ UNCHANGED << docVars, rec, recordings, rep >>
           [] t.kind = "end" ->
                /\ emitted' = << >>
                /\ timerq' = rest
                /\ UNCHANGED << docVars, rec, recordings, rep, replayLog >>
  /\ UNCHANGED << idVars, sessVars, nextRecId, presetVars, gateway, now, issued >>

\* one timer callback runs: never before it is due
TimerFires ==
  /\ NextTimer # 0
  /\ timerq[NextTimer].due <= now
  /\ LET t    == timerq[NextTimer]
         rest == RemoveAt(timerq, NextTimer)
     IN  CASE t.kind = "init" ->
                /\ emitted' = << IoEmit("replay-init", t.data) >>
                /\ timerq' = rest
                /\ UNCHANGED << docVars, rec, recordings, rep, replayLog >>
           [] t.kind = "entry" ->
                /\ emitted' = << IoEmit(t.event, t.data) >>
                /\ timerq' = rest
                /\ replayLog' = Append(replayLog, IoEmit(t.event, t.data))
                /\ UNCHANGED << docVars, rec, recordings, rep >>
           [] t.kind = "end" ->
                /\ finishReplay(rest)
                /\ UNCHANGED replayLog
  /\ UNCHANGED << idVars, sessVars, nextRecId, presetVars, gateway, now, issued >>

\* Date.now() moves on by one tick; a pending timer runs when it is due, so
\* the clock does not pass it
Tick ==
  /\ \A i \in 1..Len(timerq) : now + TickMs <= timerq[i].due
  /\ now' = now + TickMs
  /\ UNCHANGED << docVars, idVars, sessVars, recVars, repVars, presetVars, gateway, emitted, issued >>

\* the clock reaches the due time of the next pending timer
TimerDue ==
  /\ NextTimer # 0
  /\ timerq[NextTimer].due > now
  /\ now' = timerq[NextTimer].due
  /\ UNCHANGED << docVars, idVars, sessVars, recVars, repVars, presetVars, gateway, emitted, issued >>

\* ------------------------------------------- the server and its inputs
\* An event arrives from a connected socket; its payload is drawn from a
\* small set.  The server accepts what any socket sends, whatever the
\* sender's client would have allowed.  `from` is the set of sockets that
\* send in the specification at hand.
Event == inputs < MaxEvents /\ inputs' = inputs + 1 /\ UNCHANGED netVars
TokenInputs(c)  == { [ x |-> 0, y |-> 0, label |-> "1", createdBy |-> c ] }
StrokeInputs(c) == { [ id |-> c \o "-1", socketId |-> c, points |-> 2 ] }
ArrowInputs(c)  == { [ id |-> c \o "-a1", socketId |-> c, geom |-> 1 ] }
TokenIdInputs   == { "t1" }
MoveInputs      == { << 1, 1 >> }
RecIdInputs     == { 1, 2 }
PresetIdInputs  == { 1 }
\* the ids of a stroke-remove: the sender's stroke, alone or after an id
\* that no stroke carries
StrokeIdsInputs(c) == { << c \o "-1" >>, << "none", c \o "-1" >> }

Connect == \E c \in Peers : OnConnection(c) /\ UNCHANGED << netVars, inputs >>
Join(from) == \E c \in from : OnJoin(c, NameOf(c)) /\ Event
StrokeDone(from) ==
  \E c \in from : \E st \in StrokeInputs(c) : OnStrokeDone(c, st) /\ Event
\* the ids of an arrow-remove and the token ids of token events, with an id
\* that nothing carries among them
ArrowIdsInputs    == { << "ar1" >>, << "none", "ar1" >> }
AnyTokenIdInputs  == TokenIdInputs \cup { "none" }
RelabelInputs     == { "A" }
ArrowRemove(from) ==
  \E c \in from : \E ids \in ArrowIdsInputs : OnArrowRemove(c, ids) /\ Event
TokenRemove(from) ==
  \E c \in from : \E id \in AnyTokenIdInputs : OnTokenRemove(c, id) /\ Event
TokenMoveAny(from) ==
  \E c \in from : \E id \in AnyTokenIdInputs : \E p \in MoveInputs :
     OnTokenMove(c, id, p[1], p[2]) /\ Event
TokenRelabel(from) ==
  \E c \in from : \E id \in AnyTokenIdInputs : \E label \in RelabelInputs :
     OnTokenRelabel(c, id, label) /\ Event
StrokeRemove(from) ==
  \E c \in from : \E ids \in StrokeIdsInputs(c) : OnStrokeRemove(c, ids) /\ Event
TokenAdd(from) ==
  \E c \in from : \E tok \in TokenInputs(c) : OnTokenAdd(c, tok) /\ Event
TokenMove(from) ==
  \E c \in from : \E id \in TokenIdInputs : \E p \in MoveInputs :
     OnTokenMove(c, id, p[1], p[2]) /\ Event
ArrowDone(from) ==
  \E c \in from : \E ar \in ArrowInputs(c) : OnArrowDone(c, ar) /\ Event
ClearBoard(from)     == \E c \in from : OnClearBoard(c) /\ Event
RecordingStart(from) == \E c \in from : OnRecordingStart(c) /\ Event
RecordingStop(from)  == \E c \in from : OnRecordingStop(c) /\ Event
ReplayStart(from) ==
  \E c \in from : \E recId \in RecIdInputs : OnReplayStart(c, recId) /\ Event
ReplayStop(from) == \E c \in from : OnReplayStop(c) /\ Event
SavePreset(from) == \E c \in from : OnSavePreset(c) /\ Event
LoadPreset(from) ==
  \E c \in from : \E presetId \in PresetIdInputs : OnLoadPreset(c, presetId) /\ Event
\* load-preset with the id of the first, of the second, or of no stored preset
AnyPresetIdInputs == { 1, 2, 3 }
LoadAnyPreset(from) ==
  \E c \in from : \E presetId \in AnyPresetIdInputs : OnLoadPreset(c, presetId) /\ Event
Timeout   == TimerFires /\ UNCHANGED << netVars, inputs >>
ClockTick == Tick /\ Event
ClockDue  == TimerDue /\ UNCHANGED << netVars, inputs >>

\* ------------------------------------------------------- specifications
\* the state once every connection of Conns is open and nothing else happened
InitConnected ==
  /\ sockets = Conns /\ users = << >> /\ colorIndex = 0
  /\ strokes = << >> /\ arrows = << >> /\ tokens = << >>
  /\ nextTokenId = 1 /\ nextArrowId = 1
  /\ rec = [ active |-> FALSE, start |-> 0, snapshot |-> Null, timeline |-> << >> ]
  /\ rep = [ active |-> FALSE, timers |-> << >>, preSnap |-> Null, currentRecId |-> NoRec ]
  /\ recordings = << >> /\ nextRecId = 1
  /\ boardPresets = << >> /\ nextPresetId = 1 /\ gateway = EmptyGateway
  /\ now = 0 /\ timerq = << >> /\ emitted = << >>
  /\ cl = [ c \in Conns |-> NoClient ]
  /\ toServer = [ c \in Conns |-> << >> ]
  /\ toClient = [ c \in Conns |-> << >> ]
  /\ issued = [ tokens |-> << >>, arrows |-> << >> ] /\ replayLog = << >> /\ inputs = 0

\* The recorder and the replay engine under board events.  The events come
\* from one socket; the other is connected and is a receiver.
Director == { "c1" }
NextReplay ==
  \/ StrokeDone(Director) \/ TokenAdd(Director) \/ TokenMove(Director)
  \/ ClearBoard(Director)
  \/ RecordingStart(Director) \/ RecordingStop(Director)
  \/ ReplayStart(Director) \/ ReplayStop(Director)
  \/ SavePreset(Director) \/ LoadPreset(Director)
  \/ Timeout \/ ClockTick \/ ClockDue
SpecReplay == InitConnected /\ [][NextReplay]_vars

\* The board under events of every connected socket, joins included.
NextBoard ==
  \/ Connect \/ Join(sockets)
  \/ StrokeDone(sockets) \/ TokenAdd(sockets) \/ TokenMove(sockets)
  \/ ArrowDone(sockets) \/ ClearBoard(sockets)
SpecBoard == Init /\ [][NextBoard]_vars

\* The board under additions and under removals, moves and relabels that
\* name ids the board holds and ids it does not hold.
NextRemovals ==
  \/ StrokeDone(Director) \/ ArrowDone(Director) \/ TokenAdd(Director)
  \/ StrokeRemove(Director) \/ ArrowRemove(Director) \/ TokenRemove(Director)
  \/ TokenMoveAny(Director) \/ TokenRelabel(Director)
SpecRemovals == InitConnected /\ [][NextRemovals]_vars

\* stroke-done payloads as any socket.io client can send them: the handler
\* reads nothing of the payload, so the number of points is the sender's choice
AnyStrokeInputs(c) ==
  { [ id |-> c \o "-1", socketId |-> c, points |-> n ] : n \in { 1, 2, 3 } }
StrokeDoneAny(from) ==
  \E c \in from : \E st \in AnyStrokeInputs(c) : OnStrokeDone(c, st) /\ Event
NextPayloads ==
  \/ StrokeDoneAny(Director) \/ StrokeRemove(Director) \/ ClearBoard(Director)
SpecPayloads == InitConnected /\ [][NextPayloads]_vars

\* Connections that open, join (again and again) and close. The name of a
\* closed connection is used again for a new one: socket.io gives every
\* connection a fresh id, and nothing of the old one is left in the roster.
ConnectAny == \E c \in Conns : OnConnection(c) /\ UNCHANGED << netVars, inputs >>
Disconnect == \E c \in sockets : OnDisconnect(c) /\ Event
NextRoster == ConnectAny \/ Join(sockets) \/ Disconnect
SpecRoster == Init /\ [][NextRoster]_vars

\* The preset handlers among the board events that fill and change the board.
NextPresets ==
  \/ StrokeDone(Director) \/ ArrowDone(Director) \/ TokenAdd(Director)
  \/ TokenMove(Director) \/ ClearBoard(Director)
  \/ SavePreset(Director) \/ LoadAnyPreset(Director)
SpecPresets == InitConnected /\ [][NextPresets]_vars

\* The recorder under stroke events alone, from both sockets.
NextStrokes ==
  \/ StrokeDone(Peers) \/ StrokeRemove(Peers)
  \/ RecordingStart(Director) \/ RecordingStop(Director)
  \/ ClockTick
SpecStrokes == InitConnected /\ [][NextStrokes]_vars

\* ------------------------------------------------------------ the client
\* (app.js; names as in the code).  A stroke is { id, socketId, points } with
\* points the number of points; an arrow is { id, socketId, geom } with geom
\* standing for its coordinates x1, y1, x2, y2.
Send(c, event, data) == Append(toServer[c], [event |-> event, data |-> data])
Gesture == inputs < MaxGestures /\ inputs' = inputs + 1

\* connectSocket(): the socket opens (the server's 'connection') and the
\* client's 'connect' handler sets myId and emits join
ClientConnect(c) ==
  /\ c \notin sockets
  /\ OnConnection(c)
  /\ cl' = [cl EXCEPT ![c].myId = c]
  /\ toServer' = [toServer EXCEPT ![c] = Send(c, "join", [username |-> NameOf(c)])]
  /\ UNCHANGED << toClient, inputs >>

\* liveCanvas pointerup with the draw tool and a path of at least 2 points
PointerUpDraw(c) ==
  LET me     == cl[c]
      stroke == [ id |-> me.myId \o "-" \o ToString(me.strokeSeq + 1),
                  socketId |-> me.myId, points |-> 2 ]
  IN  /\ me.myId # ""
      /\ Gesture
      /\ cl' = [cl EXCEPT ![c].strokeSeq = @ + 1,
                          ![c].allStrokes = Append(@, stroke),
                          ![c].myUndoStack = Append(@, [type |-> "stroke", id |-> stroke.id,
                                                        pending |-> FALSE])]
      /\ toServer' = [toServer EXCEPT ![c] = Send(c, "stroke-done", stroke)]
      /\ UNCHANGED << serverVars, toClient >>

\* liveCanvas pointerup with the arrow tool
PointerUpArrow(c) ==
  LET me     == cl[c]
      tempId == me.myId \o "-a" \o ToString(me.arrowSeq + 1)
      arrow  == [ id |-> tempId, socketId |-> me.myId, geom |-> me.arrowSeq + 1 ]
  IN  /\ me.myId # ""
      /\ Gesture
      /\ cl' = [cl EXCEPT ![c].arrowSeq = @ + 1,
                          ![c].allArrows = Append(@, arrow),
                          ![c].myUndoStack = Append(@, [type |-> "arrow", id |-> tempId,
                                                        pending |-> TRUE])]
      /\ toServer' = [toServer EXCEPT ![c] = Send(c, "arrow-done", arrow)]
      /\ UNCHANGED << serverVars, toClient >>

\* for (i = length-1 .. 0) if (s[i].id === id) { splice(i, 1); break }:
\* the LAST entry carrying the id is removed
SpliceLast(s, id) ==
  IF \E i \in 1..Len(s) : s[i].id = id
  THEN RemoveAt(s, Max({ i \in 1..Len(s) : s[i].id = id }))
  ELSE s

\* undoLast()
UndoLast(c) ==
  LET me    == cl[c]
      entry == Last(me.myUndoStack)
      rest  == SubSeq(me.myUndoStack, 1, Len(me.myUndoStack) - 1)
  IN  /\ me.myId # ""
      /\ me.myUndoStack # << >>
      /\ Gesture
      /\ CASE entry.type = "stroke" ->
                /\ cl' = [cl EXCEPT ![c].myUndoStack = rest,
                                    ![c].allStrokes = SpliceLast(@, entry.id)]
                /\ toServer' = [toServer EXCEPT
                                  ![c] = Send(c, "stroke-remove", [ids |-> << entry.id >>])]
           [] entry.type = "arrow" ->
                /\ cl' = [cl EXCEPT ![c].myUndoStack = rest,
                                    ![c].allArrows = SpliceLast(@, entry.id)]
                /\ toServer' = [toServer EXCEPT
                                  ![c] = Send(c, "arrow-remove", [ids |-> << entry.id >>])]
           [] entry.type = "token" ->
                /\ cl' = [cl EXCEPT ![c].myUndoStack = rest]
                /\ toServer' = [toServer EXCEPT
                                  ![c] = Send(c, "token-remove", [id |-> entry.id])]
      /\ UNCHANGED << serverVars, toClient >>

\* a click on a token swatch: nothing is applied locally
ClickTokenSwatch(c) ==
  /\ cl[c].myId # ""
  /\ Gesture
  /\ \E tok \in TokenInputs(c) : toServer' = [toServer EXCEPT ![c] = Send(c, "token-add", tok)]
  /\ UNCHANGED << serverVars, cl, toClient >>

\* a drag of token id that ends at (x, y): pointermove writes the token's
\* local position, pointerup emits it
DragToken(c, id, x, y) ==
  LET idx == FindIndex(cl[c].tokens, id)
  IN  /\ cl[c].myId # ""
      /\ idx # 0
      /\ Gesture
      /\ cl' = [cl EXCEPT ![c].tokens[idx].x = x, ![c].tokens[idx].y = y]
      /\ toServer' = [toServer EXCEPT
                        ![c] = Send(c, "token-move", [id |-> id, x |-> x, y |-> y])]
      /\ UNCHANGED << serverVars, toClient >>

\* double-click rename of token id, committed with a new label
CommitLabel(c, id, newLabel) ==
  LET idx == FindIndex(cl[c].tokens, id)
  IN  /\ cl[c].myId # ""
      /\ idx # 0
      /\ newLabel # cl[c].tokens[idx].label
      /\ Gesture
      /\ cl' = [cl EXCEPT ![c].tokens[idx].label = newLabel]
      /\ toServer' = [toServer EXCEPT
                        ![c] = Send(c, "token-relabel", [id |-> id, label |-> newLabel])]
      /\ UNCHANGED << serverVars, toClient >>

\* the clear-board button, confirmed, with own-erase off
ClickClearBoard(c) ==
  /\ cl[c].myId # ""
  /\ Gesture
  /\ toServer' = [toServer EXCEPT ![c] = Send(c, "clear-board", NoData)]
  /\ UNCHANGED << serverVars, cl, toClient >>

\* the clear-drawings button, confirmed, with own-erase off
ClickClearDrawings(c) ==
  /\ cl[c].myId # ""
  /\ Gesture
  /\ toServer' = [toServer EXCEPT ![c] = Send(c, "clear-drawings", NoData)]
  /\ UNCHANGED << serverVars, cl, toClient >>

\* myUndoStack.findLast(e => e._pending && e.id === tempId), then
\* ue.id = arrow.id; delete ue._pending
ConfirmUndoEntry(stack, tempId, id) ==
  LET hits == { i \in 1..Len(stack) : stack[i].pending /\ stack[i].id = tempId }
  IN  IF hits = {} THEN stack
      ELSE [stack EXCEPT ![Max(hits)] = [@ EXCEPT !.id = id, !.pending = FALSE]]

\* the client's socket.on handlers that write allStrokes, allArrows, tokens
\* or myUndoStack, applied to client record me
ClientHandle(me, m) ==
  LET d == m.data
  IN  CASE m.event = "init-state" ->
             [me EXCEPT !.myColor = d.you.color,
                        !.allStrokes = d.strokes, !.allArrows = d.arrows,
                        !.tokens = d.tokens]
        [] m.event \in { "replay-init", "replay-restore", "preset-loaded" } ->
             [me EXCEPT !.allStrokes = d.strokes, !.allArrows = d.arrows,
                        !.tokens = d.tokens]
        [] m.event = "stroke-done" -> [me EXCEPT !.allStrokes = Append(@, d)]
        [] m.event = "stroke-remove" -> [me EXCEPT !.allStrokes = SpliceAll(@, d.ids)]
        [] m.event = "arrow-done" -> [me EXCEPT !.allArrows = Append(@, d)]
        [] m.event = "arrow-confirmed" ->
             LET idx == FindIndex(me.allArrows, d.tempId)
             IN  [me EXCEPT !.allArrows = IF idx # 0 THEN [@ EXCEPT ![idx] = d.arrow] ELSE @,
                            !.myUndoStack = ConfirmUndoEntry(@, d.tempId, d.arrow.id)]
        [] m.event = "arrow-remove" -> [me EXCEPT !.allArrows = SpliceAll(@, d.ids)]
        [] m.event = "token-add" ->
             [me EXCEPT !.tokens = PutToken(@, d),
                        !.myUndoStack =
                           IF d.createdBy = me.myId
                           THEN Append(@, [type |-> "token", id |-> d.id, pending |-> FALSE])
                           ELSE @]
        [] m.event = "token-relabel" ->
             LET idx == FindIndex(me.tokens, d.id)
             IN  [me EXCEPT !.tokens = IF idx # 0 THEN [@ EXCEPT ![idx].label = d.label] ELSE @]
        [] m.event = "token-move" ->
             LET idx == FindIndex(me.tokens, d.id)
             IN  [me EXCEPT !.tokens =
                    IF idx # 0 THEN [@ EXCEPT ![idx].x = d.x, ![idx].y = d.y] ELSE @]
        [] m.event = "token-remove" -> [me EXCEPT !.tokens = SpliceAll(@, << d.id >>)]
        [] m.event = "clear-board" -> [me EXCEPT !.allStrokes = << >>, !.allArrows = << >>]
        [] m.event = "tokens-cleared" -> [me EXCEPT !.tokens = << >>]
        [] OTHER -> me

\* one message of the server is handled by client c
ClientTurn(c) ==
  /\ toClient[c] # << >>
  /\ cl' = [cl EXCEPT ![c] = ClientHandle(@, Head(toClient[c]))]
  /\ toClient' = [toClient EXCEPT ![c] = Tail(@)]
  /\ UNCHANGED << serverVars, toServer, inputs >>

\* the server's handler for message m of socket c
Handle(c, m) ==
  CASE m.event = "join"           -> OnJoin(c, m.data.username)
    [] m.event = "stroke-done"    -> OnStrokeDone(c, m.data)
    [] m.event = "stroke-remove"  -> OnStrokeRemove(c, m.data.ids)
    [] m.event = "arrow-done"     -> OnArrowDone(c, m.data)
    [] m.event = "arrow-remove"   -> OnArrowRemove(c, m.data.ids)
    [] m.event = "token-add"      -> OnTokenAdd(c, m.data)
    [] m.event = "token-move"     -> OnTokenMove(c, m.data.id, m.data.x, m.data.y)
    [] m.event = "token-relabel"  -> OnTokenRelabel(c, m.data.id, m.data.label)
    [] m.event = "token-remove"   -> OnTokenRemove(c, m.data.id)
    [] m.event = "clear-board"    -> OnClearBoard(c)
    [] m.event = "clear-drawings" -> OnClearDrawings(c)
    [] m.event = "recording-start"  -> OnRecordingStart(c)
    [] m.event = "recording-stop"   -> OnRecordingStop(c)
    [] m.event = "rename-recording" -> OnRenameRecording(c, m.data.recId, m.data.newName)
    [] m.event = "delete-recording" -> OnDeleteRecording(c, m.data.recId)
    [] m.event = "save-preset"      -> OnSavePreset(c)
    [] m.event = "rename-preset"    -> OnRenamePreset(c, m.data.presetId, m.data.newName)
    [] m.event = "delete-preset"    -> OnDeletePreset(c, m.data.presetId)
    [] m.event = "replay-start"     -> OnReplayStart(c, m.data.recId)
    [] m.event = "replay-stop"      -> OnReplayStop(c)

\* the events whose client handlers only write the DOM (toasts, the user
\* list) are not queued
Queued(event) == event \notin { "user-joined", "user-list" }

\* what a server turn writes to socket d, in emit order
RECURSIVE Outbox(_, _)
Outbox(d, out) ==
  IF out = << >> THEN << >>
  ELSE (IF d \in Head(out).to /\ Queued(Head(out).event)
        THEN << [event |-> Head(out).event, data |-> Head(out).data] >> ELSE << >>)
       \o Outbox(d, Tail(out))

\* the server handles the next message of socket c; its emits are queued
ServerTurn(c) ==
  /\ toServer[c] # << >>
  /\ Handle(c, Head(toServer[c]))
  /\ toServer' = [toServer EXCEPT ![c] = Tail(@)]
  /\ toClient' = [ d \in Conns |-> toClient[d] \o Outbox(d, emitted') ]
  /\ UNCHANGED << cl, inputs >>

\* the clients whose board has arrived: init-state has set myColor
Loaded == { c \in Conns : cl[c].myColor # NoClient.myColor }

\* the users are taken to touch the board only once it has arrived
UserDraws(c)          == c \in Loaded /\ PointerUpDraw(c)
UserDrawsArrow(c)     == c \in Loaded /\ PointerUpArrow(c)
UserUndoes(c)         == c \in Loaded /\ UndoLast(c)
UserClearsBoard(c)    == c \in Loaded /\ ClickClearBoard(c)
UserClearsDrawings(c) == c \in Loaded /\ ClickClearDrawings(c)

\* Clients drawing, undoing and clearing against the server.
NextClients ==
  \/ \E c \in Peers : ClientConnect(c)
  \/ \E c \in Peers : UserDraws(c)
  \/ \E c \in Peers : UserDrawsArrow(c)
  \/ \E c \in Peers : UserUndoes(c)
  \/ \E c \in Peers : UserClearsBoard(c)
  \/ \E c \in Peers : UserClearsDrawings(c)
  \/ \E c \in Conns : ServerTurn(c)
  \/ \E c \in Conns : ClientTurn(c)
SpecClients == Init /\ [][NextClients]_vars

\* the board after c1, c2 and c3 have joined in this order, c1 has drawn a
\* stroke and an arrow and placed a token, and every message has been handled
JoinedBoard ==
  LET stroke == [ id |-> "c1-1", socketId |-> "c1", points |-> 2 ]
      arrow  == [ id |-> "ar1", socketId |-> "c1", geom |-> 1 ]
      token  == [ id |-> "t1", x |-> 0, y |-> 0, label |-> "1", createdBy |-> "c1" ]
      order  == << "c1", "c2", "c3" >>
      joined == [ myId |-> "", myColor |-> "", allStrokes |-> << stroke >>,
                  allArrows |-> << arrow >>, tokens |-> << token >>,
                  myUndoStack |-> << >>, strokeSeq |-> 0, arrowSeq |-> 0 ]
  IN  /\ sockets = Conns /\ colorIndex = 3
      /\ users = [ i \in 1..3 |-> [ id |-> order[i], username |-> NameOf(order[i]),
                                    color |-> USER_COLORS[i] ] ]
      /\ strokes = << stroke >> /\ arrows = << arrow >> /\ tokens = << token >>
      /\ nextTokenId = 2 /\ nextArrowId = 2
      /\ rec = [ active |-> FALSE, start |-> 0, snapshot |-> Null, timeline |-> << >> ]
      /\ rep = [ active |-> FALSE, timers |-> << >>, preSnap |-> Null, currentRecId |-> NoRec ]
      /\ recordings = << >> /\ nextRecId = 1
      /\ boardPresets = << >> /\ nextPresetId = 1 /\ gateway = EmptyGateway
      /\ now = 0 /\ timerq = << >>
      /\ emitted = << IoEmit("token-add", token) >>
      /\ cl = [ c \in Conns |->
                 [joined EXCEPT
                    !.myId = c,
                    !.myColor = USER_COLORS[CHOOSE i \in 1..3 : order[i] = c],
                    !.strokeSeq = IF c = "c1" THEN 1 ELSE 0,
                    !.arrowSeq = IF c = "c1" THEN 1 ELSE 0,
                    !.myUndoStack =
                       IF c = "c1"
                       THEN << [type |-> "stroke", id |-> "c1-1", pending |-> FALSE],
                               [type |-> "arrow", id |-> "ar1", pending |-> FALSE],
                               [type |-> "token", id |-> "t1", pending |-> FALSE] >>
                       ELSE << >>] ]
      /\ toServer = [ c \in Conns |-> << >> ]
      /\ toClient = [ c \in Conns |-> << >> ]
      /\ issued = [ tokens |-> << "t1" >>, arrows |-> << "ar1" >> ] /\ replayLog = << >>
InitJoined == JoinedBoard /\ inputs = 0

\* what the two parties do to the token: each drags it to a place of its own
\* and gives it a label of its own
DragInputs(c)  == IF c = "c1" THEN << 1, 1 >> ELSE << 2, 2 >>
LabelInputs(c) == IF c = "c1" THEN "A" ELSE "B"
UserDragsToken(c) ==
  \E id \in TokenIdInputs : DragToken(c, id, DragInputs(c)[1], DragInputs(c)[2])
UserRelabelsToken(c) == \E id \in TokenIdInputs : CommitLabel(c, id, LabelInputs(c))

\* Two parties moving, relabelling and clearing on a joined board; a third
\* connection only receives.
NextTokens ==
  \/ \E c \in Peers : UserDragsToken(c)
  \/ \E c \in Peers : UserRelabelsToken(c)
  \/ \E c \in Peers : UserClearsDrawings(c)
  \/ \E c \in Conns : ServerTurn(c)
  \/ \E c \in Conns : ClientTurn(c)
SpecTokens == InitJoined /\ [][NextTokens]_vars

\* Two parties drawing and dragging on a joined board, no replay running; a
\* third connection only receives.
NextLive ==
  \/ \E c \in Peers : UserDraws(c)
  \/ \E c \in Peers : UserDragsToken(c)
  \/ \E c \in Conns : ServerTurn(c)
  \/ \E c \in Conns : ClientTurn(c)
SpecLive == InitJoined /\ [][NextLive]_vars

\* The recorder and the list handlers over a gateway whose writes fail and
\* succeed at the environment's will. A connection sends its requests as
\* messages, and the server handles them in order.
NameInputs == { "plan" }
ListRequests ==
  { [ event |-> "token-add", data |-> t ] : t \in TokenInputs("c1") }
  \cup { [ event |-> e, data |-> NoData ] :
            e \in { "recording-start", "recording-stop", "save-preset" } }
  \cup { [ event |-> "rename-recording", data |-> [ recId |-> 1, newName |-> n ] ] : n \in NameInputs }
  \cup { [ event |-> "delete-recording", data |-> [ recId |-> 1 ] ] }
  \cup { [ event |-> "rename-preset", data |-> [ presetId |-> 1, newName |-> n ] ] : n \in NameInputs }
  \cup { [ event |-> "delete-preset", data |-> [ presetId |-> 1 ] ] }
Request(c) ==
  \E m \in ListRequests :
    /\ Gesture
    /\ toServer' = [toServer EXCEPT ![c] = Send(c, m.event, m.data)]
    /\ UNCHANGED << serverVars, cl, toClient >>
\* the database or the file system starts or stops failing
GatewayFault ==
  /\ \E d, f \in BOOLEAN : gateway' = [gateway EXCEPT !.dbUp = d, !.fileUp = f]
  /\ gateway' # gateway
  /\ UNCHANGED << docVars, idVars, sessVars, recVars, repVars, presetVars, now,
                  emitted, issued, netVars, inputs >>
DirectorRequests == \E c \in Director : Request(c)
DirectorServed   == \E c \in Director : ServerTurn(c)
NextGateway == DirectorRequests \/ DirectorServed \/ GatewayFault
SpecGateway == InitConnected /\ [][NextGateway]_vars

\* The recorder and the replay engine driven by requests that arrive as
\* messages, one at a time: a request is in the connection's queue until the
\* server handles it, so a step shows which request it answers. What the
\* handlers emit is kept in `emitted` only.
RecorderRequests ==
  { [ event |-> "token-add", data |-> t ] : t \in TokenInputs("c1") }
  \cup { [ event |-> e, data |-> NoData ] :
            e \in { "recording-start", "recording-stop", "replay-stop" } }
  \cup { [ event |-> "replay-start", data |-> [ recId |-> r ] ] : r \in RecIdInputs }
Arrives(c) ==
  \E m \in RecorderRequests :
    /\ toServer[c] = << >>
    /\ inputs < MaxEvents /\ inputs' = inputs + 1
    /\ toServer' = [toServer EXCEPT ![c] = Send(c, m.event, m.data)]
    /\ UNCHANGED << serverVars, cl, toClient >>
Handles(c) ==
  /\ toServer[c] # << >>
  /\ Handle(c, Head(toServer[c]))
  /\ toServer' = [toServer EXCEPT ![c] = Tail(@)]
  /\ UNCHANGED << cl, toClient, inputs >>
DirectorAsks    == \E c \in Director : Arrives(c)
DirectorHandled == \E c \in Director : Handles(c)
NextRequests == DirectorAsks \/ DirectorHandled \/ Timeout \/ ClockDue
SpecRequests == InitConnected /\ [][NextRequests]_vars

\* The two id counters under everything that replaces the store's contents:
\* clear-board, load-preset, replay-start and the end of a replay.
NextIds ==
  \/ TokenAdd(Director) \/ ArrowDone(Director) \/ ClearBoard(Director)
  \/ SavePreset(Director) \/ LoadPreset(Director)
  \/ RecordingStart(Director) \/ RecordingStop(Director)
  \/ ReplayStart(Director) \/ ReplayStop(Director)
  \/ Timeout \/ ClockDue
SpecIds == InitConnected /\ [][NextIds]_vars

\* Joins alone, first and repeated, of the open connections: `inputs` is the
\* number of joins the server has processed.
JoinCounted ==
  \E c \in sockets :
    /\ OnJoin(c, NameOf(c))
    /\ inputs < MaxJoins /\ inputs' = inputs + 1
    /\ UNCHANGED netVars
NextColors == JoinCounted
SpecColors == InitConnected /\ [][NextColors]_vars

\* The server process ends and startServer() runs again: every module-level
\* variable has its initial value, loadPresets() and loadRecordings() fill
\* the lists and the counters from the gateway, no timer is left, and the
\* clients' connections are opened again.
Restart ==
  LET ps == loadPresets(gateway)
      rs == loadRecordings(gateway)
  IN  /\ users' = << >> /\ colorIndex' = 0
      /\ strokes' = << >> /\ arrows' = << >> /\ tokens' = << >>
      /\ nextTokenId' = 1 /\ nextArrowId' = 1
      /\ rec' = [ active |-> FALSE, start |-> 0, snapshot |-> Null, timeline |-> << >> ]
      /\ rep' = [ active |-> FALSE, timers |-> << >>, preSnap |-> Null, currentRecId |-> NoRec ]
      /\ boardPresets' = ps.list /\ nextPresetId' = ps.nextId
      /\ recordings' = rs.list /\ nextRecId' = rs.nextId
      /\ timerq' = << >> /\ replayLog' = << >> /\ emitted' = << >>
      /\ issued' = [ tokens |-> << >>, arrows |-> << >> ]
      /\ UNCHANGED << sockets, gateway, now >>
ServerRestarts == Restart /\ Event

DeleteRecording(from) ==
  \E c \in from : \E recId \in RecIdInputs : OnDeleteRecording(c, recId) /\ Event
DeletePreset(from) ==
  \E c \in from : \E presetId \in PresetIdInputs : OnDeletePreset(c, presetId) /\ Event

\* Server runs that end and start again: tokens are added, presets and
\* recordings are stored, loaded and replayed before and after a restart.
NextRestarts ==
  \/ TokenAdd(Director)
  \/ SavePreset(Director) \/ LoadPreset(Director)
  \/ RecordingStart(Director) \/ RecordingStop(Director)
  \/ ReplayStart(Director)
  \/ ServerRestarts
SpecRestarts == InitConnected /\ [][NextRestarts]_vars

\* The two lists over server runs that end and start again and a gateway
\* whose database and file fail and recover: presets and recordings are
\* stored and deleted, and each restart loads what the gateway then holds.
NextLists ==
  \/ SavePreset(Director) \/ DeletePreset(Director)
  \/ RecordingStart(Director) \/ RecordingStop(Director) \/ DeleteRecording(Director)
  \/ ServerRestarts \/ GatewayFault
SpecLists == InitConnected /\ [][NextLists]_vars

\* the board after c1 has joined an empty board, started a recording, drawn
\* the stroke c1-1 and stopped the recording, all at the same instant, with
\* every message handled; no other client has connected yet
RecordedBoard ==
  LET stroke    == [ id |-> "c1-1", socketId |-> "c1", points |-> 2 ]
      empty     == [ strokes |-> << >>, arrows |-> << >>, tokens |-> << >> ]
      recording == [ id |-> 1, name |-> "Recording", duration |-> 0, eventCount |-> 1,
                     snapshot |-> empty,
                     timeline |-> << Entry(0, "stroke-done", stroke, FALSE) >> ]
  IN  /\ sockets = { "c1" } /\ colorIndex = 1
      /\ users = << [ id |-> "c1", username |-> NameOf("c1"), color |-> USER_COLORS[1] ] >>
      /\ strokes = << stroke >> /\ arrows = << >> /\ tokens = << >>
      /\ nextTokenId = 1 /\ nextArrowId = 1
      /\ rec = [ active |-> FALSE, start |-> 0, snapshot |-> empty,
                 timeline |-> recording.timeline ]
      /\ rep = [ active |-> FALSE, timers |-> << >>, preSnap |-> Null, currentRecId |-> NoRec ]
      /\ recordings = << recording >> /\ nextRecId = 2
      /\ boardPresets = << >> /\ nextPresetId = 1
      /\ gateway = saveRecordings(addRecordingToDB(EmptyGateway, recording),
                                  << recording >>, 2)
      /\ now = 0 /\ timerq = << >>
      /\ emitted = << IoEmit("recording-saved", getRecordingsList(<< recording >>)) >>
      /\ cl = [ c \in Conns |->
                 IF c = "c1"
                 THEN [ NoClient EXCEPT
                          !.myId = "c1", !.myColor = USER_COLORS[1],
                          !.allStrokes = << stroke >>, !.strokeSeq = 1,
                          !.myUndoStack = << [type |-> "stroke", id |-> "c1-1",
                                              pending |-> FALSE] >> ]
                 ELSE NoClient ]
      /\ toServer = [ c \in Conns |-> << >> ]
      /\ toClient = [ c \in Conns |-> << >> ]
      /\ issued = [ tokens |-> << >>, arrows |-> << >> ] /\ replayLog = << >>
InitRecorded == RecordedBoard /\ inputs = 0

\* the replay button: replay-start for the recording selected, the newest
ClickReplay(c) ==
  /\ c \in Loaded /\ recordings # << >>
  /\ Gesture
  /\ toServer' = [toServer EXCEPT
                    ![c] = Send(c, "replay-start", [recId |-> Last(recordings).id])]
  /\ UNCHANGED << serverVars, cl, toClient >>
\* a timer callback runs and what it emits is written to the sockets
TimeoutSent ==
  /\ TimerFires
  /\ toClient' = [ d \in Conns |-> toClient[d] \o Outbox(d, emitted') ]
  /\ UNCHANGED << cl, toServer, inputs >>

\* A replay watched by the client that started it and by a client that
\* connects and joins while it runs.
NextViewers ==
  \/ \E c \in Director : ClickReplay(c)
  \/ \E c \in Peers \ Director : ClientConnect(c)
  \/ \E c \in Conns : ServerTurn(c)
  \/ \E c \in Conns : ClientTurn(c)
  \/ TimeoutSent \/ ClockDue
SpecViewers == InitRecorded /\ [][NextViewers]_vars

\* The replay engine with a clock that goes on and timers that run: time
\* reaches the due time of a pending timer, and a timer that is due runs.
NextEnding ==
  \/ TokenAdd(Director)
  \/ RecordingStart(Director) \/ RecordingStop(Director)
  \/ ReplayStart(Director) \/ ReplayStop(Director)
  \/ Timeout \/ ClockTick \/ ClockDue
SpecEnding ==
  InitConnected /\ [][NextEnding]_vars /\ WF_vars(Timeout) /\ WF_vars(ClockDue)

\* ================================================================ claims
Doc == [ strokes |-> strokes, arrows |-> arrows, tokens |-> tokens ]
Distinct(s) == \A i, j \in 1..Len(s) : i # j => s[i] # s[j]
Ids(s) == [ i \in 1..Len(s) |-> s[i].id ]

\* C2: whenever a join is processed, the first emit of the turn is one
\* init-state written to the joiner alone, whose strokes, arrows and tokens
\* are the server's at that moment, whose roster is the server's roster and
\* holds the joiner, and whose `you` is the joiner's own entry.
C2_InitStateIsCurrentTruth ==
  [][ \A c \in Conns :
        OnJoin(c, NameOf(c)) =>
          /\ Len(emitted') >= 1
          /\ emitted'[1].event = "init-state" /\ emitted'[1].to = {c}
          /\ \A i \in 2..Len(emitted') : emitted'[i].event # "init-state"
          /\ LET d == emitted'[1].data
             IN  /\ d.strokes = strokes' /\ d.strokes = strokes
                 /\ d.arrows = arrows'   /\ d.arrows = arrows
                 /\ d.tokens = tokens'   /\ d.tokens = tokens
                 /\ d.users = users'
                 /\ \E i \in 1..Len(d.users) : d.users[i].id = c /\ d.you = d.users[i]
                 /\ d.you.username = NameOf(c) ]_vars
\* a join was just processed on a board that holds a stroke, an arrow and a
\* token, with another user already in the roster
C2_Witness ==
  /\ Len(emitted) >= 1 /\ emitted[1].event = "init-state"
  /\ strokes # << >> /\ arrows # << >> /\ tokens # << >>
  /\ Len(users) >= 2

\* C3: a replay that ends (by replay-stop or by its terminal timer) leaves
\* the store equal to the snapshot taken when its replay-start was accepted:
\* the accepted replay-start saves the store as it was, no step taken while
\* the replay is active changes what was saved, and the step that ends the
\* replay puts the store to it.
C3_ReplayRestoresPreReplayState ==
  [][ /\ (~rep.active /\ rep'.active) => rep'.preSnap = Doc
      /\ (rep.active /\ rep'.active)  => rep'.preSnap = rep.preSnap
      /\ (rep.active /\ ~rep'.active) => Doc' = rep.preSnap ]_vars
\* a replay has just ended and the store restored differs from the base
\* snapshot of the recording that was replayed
C3_Witness ==
  /\ ~rep.active /\ rep.preSnap # Null
  /\ Len(emitted) = 4 /\ emitted[4].event = "replay-done"
  /\ Doc = rep.preSnap
  /\ \A k \in 1..Len(recordings) : Doc # recordings[k].snapshot
  /\ strokes # << >>

\* C4: the recorder and the replay engine are never active together.
C4_NeverBothActive == ~(rec.active /\ rep.active)

\* C5: once a replay has been stopped no timer of it runs: a timer callback
\* only ever runs while a replay is active.
C5_NoTimerAfterStop == [][ Timeout => rep.active ]_vars

\* C6: when the terminal timer ends a replay, the timers have re-emitted
\* exactly the entries of the recording's timeline, each once, to all
\* sockets, under their recorded event names and in timeline order.
TimelineOf(recId) == recordings[FindIndex(recordings, recId)].timeline
C6_ReplayEmitsTimelineInOrder ==
  [][ (Timeout /\ rep.active /\ ~rep'.active) =>
        LET tl == TimelineOf(rep.currentRecId)
        IN  replayLog = [ i \in 1..Len(tl) |-> IoEmit(tl[i].event, tl[i].data) ] ]_vars
\* a replay of a timeline with two entries at different offsets has run to
\* its terminal timer
C6_Witness ==
  /\ ~rep.active /\ Len(replayLog) >= 2
  /\ Len(emitted) = 4 /\ emitted[4].event = "replay-done"
  /\ \E k \in 1..Len(recordings) :
        /\ Len(recordings[k].timeline) = 2
        /\ recordings[k].timeline[1].t < recordings[k].timeline[2].t
        /\ replayLog[1].event = recordings[k].timeline[1].event
        /\ replayLog[2].event = recordings[k].timeline[2].event

\* C7: the payload of a timeline entry never changes once appended, in the
\* timeline being recorded and in every stored recording.
C7_EntriesImmutable ==
  [][ /\ \A k \in 1..Len(recordings) : \A i \in 1..Len(recordings[k].timeline) :
           recordings'[k].timeline[i].data = recordings[k].timeline[i].data
      /\ Len(rec'.timeline) >= Len(rec.timeline) =>
           \A i \in 1..Len(rec.timeline) :
              rec'.timeline[i].data = rec.timeline[i].data ]_vars

\* C8: no two token-adds are given the same id, and the token collection
\* never holds two tokens with one id.
C8_TokenIdsUnique == Distinct(issued.tokens) /\ Distinct(Ids(tokens))
\* two connections have each added a token
C8_Witness ==
  \E i, j \in 1..Len(tokens) :
     tokens[i].createdBy = "c1" /\ tokens[j].createdBy = "c2"

\* C10: an arrow-done stores the arrow under an id never given before and
\* absent from the store; the others get one arrow-done with the canonical
\* arrow, the origin gets one arrow-confirmed pairing the temporary id it
\* sent with the canonical arrow, and no arrow-done.
C10_ArrowDoneRouting ==
  [][ \A c \in Conns : \A ar \in ArrowInputs(c) :
        OnArrowDone(c, ar) =>
          LET saved == Last(arrows')
          IN  /\ Len(arrows') = Len(arrows) + 1
              /\ saved.id \notin Range(Ids(arrows)) \cup Range(issued.arrows)
              /\ saved.socketId = c
              /\ \E i \in 1..Len(emitted') :
                    /\ emitted'[i] = Msg({c}, "arrow-confirmed",
                                         [tempId |-> ar.id, arrow |-> saved])
                    /\ \A j \in 1..Len(emitted') :
                          j # i => c \notin emitted'[j].to
              /\ \A o \in sockets \ {c} :
                    \E i \in 1..Len(emitted') :
                       /\ o \in emitted'[i].to
                       /\ emitted'[i].event = "arrow-done" /\ emitted'[i].data = saved
                       /\ \A j \in 1..Len(emitted') : (j # i) => o \notin emitted'[j].to
    ]_vars
\* an arrow-done was just processed while another socket was connected and
\* an earlier arrow was in the store
C10_Witness ==
  /\ Len(emitted) = 2 /\ emitted[2].event = "arrow-confirmed"
  /\ emitted[1].to # {} /\ Len(arrows) >= 2

\* every message sent has been handled
Quiescent == \A c \in Conns : toServer[c] = << >> /\ toClient[c] = << >>

\* C1: with two joined clients whose boards have arrived, once every message
\* in flight has been delivered and processed, every client holds the strokes
\* the server holds (compared as collections of strokes, which equality of
\* the lists implies).
C1_StrokesConverge ==
  (Quiescent /\ Loaded = Peers) =>
     \A c \in Peers : Range(cl[c].allStrokes) = Range(strokes)

\* C9: once every message has been delivered, the origin's list holds an
\* arrow it created exactly once and under the canonical id if and only if
\* the server's collection holds it.
ServerHolds(c, k) ==
  \E i \in 1..Len(arrows) : arrows[i].socketId = c /\ arrows[i].geom = k
OriginHoldsOnce(c, k) ==
  LET mine == { i \in 1..Len(cl[c].allArrows) :
                  cl[c].allArrows[i].socketId = c /\ cl[c].allArrows[i].geom = k }
  IN  /\ Cardinality(mine) = 1
      /\ \A i \in mine : cl[c].allArrows[i] \in Range(arrows)
C9_ArrowReconciled ==
  Quiescent =>
    \A c \in sockets : \A k \in 1..cl[c].arrowSeq :
       OriginHoldsOnce(c, k) <=> ServerHolds(c, k)

\* a viewer: a client that applied applyBoardSnapshot(recording.snapshot)
\* and then handles the timeline's entries as they are re-emitted, in order
RECURSIVE ViewerAfter(_, _)
ViewerAfter(me, tl) ==
  IF tl = << >> THEN me
  ELSE ViewerAfter(ClientHandle(me, [event |-> Head(tl).event, data |-> Head(tl).data]),
                   Tail(tl))
Viewer(recording) ==
  ViewerAfter(ClientHandle(NoClient, [event |-> "replay-init",
                                      data |-> SnapshotPayload(recording.snapshot)]),
              recording.timeline)

\* C11: when a recording of stroke-done and stroke-remove events is stopped,
\* a viewer that applies its base snapshot and then its timeline in order
\* holds the stroke collection the server holds at that moment.
C11_ReplayReproducesStrokes ==
  [][ \A c \in Conns :
        (rec.active /\ OnRecordingStop(c)) =>
           Viewer(Last(recordings')).allStrokes = strokes ]_vars

\* where the tokens are: id, x and y of each, in order
Places(toks) == [ i \in 1..Len(toks) |-> [ id |-> toks[i].id, x |-> toks[i].x, y |-> toks[i].y ] ]

\* C12: a token-move of an existing token leaves the server's token at the
\* coordinates of that move, so the stored position is that of the move
\* processed last; and once every message is delivered, every connection
\* other than the senders shows the server's position of every token.
C12_LastMoveWins ==
  /\ [][ \A c \in Conns :
           (ServerTurn(c) /\ Head(toServer[c]).event = "token-move") =>
              LET d   == Head(toServer[c]).data
                  idx == FindIndex(tokens, d.id)
              IN  idx # 0 => (tokens'[idx].x = d.x /\ tokens'[idx].y = d.y) ]_vars
  /\ [](Quiescent => \A c \in Conns \ Peers : Places(cl[c].tokens) = Places(tokens))
\* both parties have moved the token at once: c2's move was processed last,
\* c2 itself shows c1's place, the third connection shows the server's
C12_Witness ==
  /\ Quiescent
  /\ tokens # << >> /\ tokens[1].x = DragInputs("c2")[1]
  /\ cl["c2"].tokens[1].x = DragInputs("c1")[1]
  /\ Places(cl["c3"].tokens) = Places(tokens)

\* C13: every clear-board leaves the server's strokes, arrows and tokens
\* empty, whatever they held before.
C13_ClearBoardEmptiesAll ==
  [][ \A c \in Conns :
        OnClearBoard(c) => (strokes' = << >> /\ arrows' = << >> /\ tokens' = << >>) ]_vars
\* a clear-board was just processed on a board that had been given an arrow
\* and a token
C13_Witness ==
  /\ Len(emitted) = 2 /\ emitted[2].event = "tokens-cleared"
  /\ issued.tokens # << >> /\ issued.arrows # << >>
  /\ Doc = [ strokes |-> << >>, arrows |-> << >>, tokens |-> << >> ]

\* C14: a clear-drawings empties the server's strokes and arrows, leaves its
\* tokens as they were and emits clear-board only (no tokens-cleared); a
\* client handling that clear-board keeps its tokens, so every client goes on
\* holding the tokens the server holds.
C14_ClearDrawingsKeepsTokens ==
  /\ [][ \A c \in Conns :
           /\ (ServerTurn(c) /\ Head(toServer[c]).event = "clear-drawings") =>
                 /\ strokes' = << >> /\ arrows' = << >> /\ tokens' = tokens
                 /\ emitted' = << IoEmit("clear-board", NoData) >>
           /\ (ClientTurn(c) /\ Head(toClient[c]).event = "clear-board") =>
                 cl'[c].tokens = cl[c].tokens ]_vars
  /\ [](\A c \in Conns : Ids(cl[c].tokens) = Ids(tokens))
\* a clear-drawings has been handled by the server and by every client: the
\* drawings are gone everywhere, the token is still everywhere
C14_Witness ==
  /\ Quiescent
  /\ strokes = << >> /\ arrows = << >> /\ tokens # << >>
  /\ \A c \in Conns : /\ cl[c].allStrokes = << >> /\ cl[c].allArrows = << >>
                      /\ cl[c].tokens # << >>

\* how many entries of s carry the id, and how often ids lists it
Count(s, id) == Cardinality({ i \in 1..Len(s) : s[i].id = id })
Listed(ids, id) == Cardinality({ i \in 1..Len(ids) : ids[i] = id })
\* a removal by ids: entries with other ids stay as they are and in order,
\* and each listed id loses as many entries as it is listed (as far as it has)
RemovedByIds(before, after, ids) ==
  /\ SpliceAll(after, ids) = SpliceAll(before, ids)
  /\ \A id \in Range(ids) :
        Count(after, id) = Max({ 0, Count(before, id) - Listed(ids, id) })

\* C15: a stroke-remove, arrow-remove, token-remove, token-move or
\* token-relabel leaves strokes, arrows and tokens unchanged when every id it
\* names is absent, and a remove with several ids removes the present ones
\* whatever absent ids stand before them.
C15_AbsentIdsAreNoOps ==
  [][ \A c \in Conns :
        /\ \A ids \in StrokeIdsInputs(c) :
              OnStrokeRemove(c, ids) =>
                 /\ RemovedByIds(strokes, strokes', ids)
                 /\ (Range(ids) \cap Range(Ids(strokes)) = {}) => Doc' = Doc
        /\ \A ids \in ArrowIdsInputs :
              OnArrowRemove(c, ids) =>
                 /\ RemovedByIds(arrows, arrows', ids)
                 /\ (Range(ids) \cap Range(Ids(arrows)) = {}) => Doc' = Doc
        /\ \A id \in AnyTokenIdInputs :
              /\ OnTokenRemove(c, id) =>
                    /\ RemovedByIds(tokens, tokens', << id >>)
                    /\ id \notin Range(Ids(tokens)) => Doc' = Doc
              /\ \A p \in MoveInputs :
                    (OnTokenMove(c, id, p[1], p[2]) /\ id \notin Range(Ids(tokens)))
                       => Doc' = Doc
              /\ \A label \in RelabelInputs :
                    (OnTokenRelabel(c, id, label) /\ id \notin Range(Ids(tokens)))
                       => Doc' = Doc ]_vars
\* the second event was an arrow-remove naming an absent id and then the one
\* arrow of the board, and the arrow is gone
C15_Witness ==
  /\ inputs = 2 /\ issued.arrows = << "ar1" >> /\ arrows = << >>
  /\ emitted = << IoEmit("arrow-remove", [ids |-> << "none", "ar1" >>]) >>

\* the snapshot a preset stores
PresetSnapshot(preset) ==
  [ strokes |-> preset.strokes, arrows |-> preset.arrows, tokens |-> preset.tokens ]

\* C16: the snapshot of a recording is the document as it was when its
\* recording-start was accepted, the snapshot of a preset is the document as
\* it was at save-preset, and no step changes a snapshot once it is stored
\* (or, for the recording in progress, once it is taken).
C16_SnapshotsAreFrozen ==
  [][ /\ \A k \in 1..Len(recordings) :
            /\ Len(recordings') >= k
            /\ recordings'[k].snapshot = recordings[k].snapshot
      /\ \A k \in 1..Len(boardPresets) :
            /\ Len(boardPresets') >= k
            /\ PresetSnapshot(boardPresets'[k]) = PresetSnapshot(boardPresets[k])
      /\ (~rec.active /\ rec'.active) => rec'.snapshot = Doc
      /\ (rec.active /\ rec'.active) => rec'.snapshot = rec.snapshot
      /\ Len(recordings') > Len(recordings) =>
            /\ rec.active
            /\ Len(recordings') = Len(recordings) + 1
            /\ Last(recordings').snapshot = rec.snapshot
      /\ Len(boardPresets') > Len(boardPresets) =>
            /\ Len(boardPresets') = Len(boardPresets) + 1
            /\ PresetSnapshot(Last(boardPresets')) = Doc ]_vars
\* a preset and a recording were taken of a board whose token was at (0, 0);
\* the recording is being replayed, so the board was loaded from its
\* snapshot, and the token has since been moved on the live board
C16_Witness ==
  /\ rep.active /\ tokens # << >> /\ tokens[1].x = 1
  /\ \E k \in 1..Len(recordings) :
        /\ recordings[k].id = rep.currentRecId
        /\ recordings[k].snapshot.tokens # << >>
        /\ recordings[k].snapshot.tokens[1].x = 0
  /\ \E k \in 1..Len(boardPresets) :
        boardPresets[k].tokens # << >> /\ boardPresets[k].tokens[1].x = 0

\* ---- C17
\* The last handler that ran was save-preset: it alone answers preset-saved,
\* and every handler replaces the emitted messages.
JustSaved ==
  /\ Len(emitted) = 2 /\ emitted[2].event = "preset-saved"
  /\ boardPresets # << >> /\ Last(boardPresets).id = emitted[2].data.id

\* C17: save-preset leaves strokes, arrows and tokens as they are, and a
\* load-preset of the preset just saved that follows it directly, with no
\* other event between, leaves them as they were before the save.
C17_SaveThenLoadIsIdentity ==
  /\ [][ Len(boardPresets') > Len(boardPresets) => Doc' = Doc ]_vars
  /\ [][ (JustSaved /\ \E c \in Director : OnLoadPreset(c, emitted[2].data.id))
            => Doc' = Doc ]_vars

\* Four events: a preset of the empty board, a change of the board, a second
\* preset, and the load of the second one; the board holds what it held
\* before, which is not what the first preset holds.
C17_Witness ==
  /\ inputs = 4 /\ Len(boardPresets) = 2
  /\ Len(emitted) = 3 /\ emitted[3].event = "preset-loaded"
  /\ Doc # [ strokes |-> << >>, arrows |-> << >>, tokens |-> << >> ]
  /\ PresetSnapshot(boardPresets[2]) = Doc
  /\ PresetSnapshot(boardPresets[1]) # Doc
\* ---- C18
RosterEntries(us, c) == { k \in 1..Len(us) : us[k].id = c }
UsersOf(us, c) == { us[k] : k \in RosterEntries(us, c) }
\* the step is a join of c: a colour was handed out and init-state went to c
JoinBy(c) ==
  /\ colorIndex' # colorIndex
  /\ emitted' # << >> /\ emitted'[1].event = "init-state" /\ emitted'[1].to = {c}
\* the step is the disconnect of c
LeaveBy(c) == c \in sockets /\ c \notin sockets'

\* C18: the roster never holds two entries of one connection nor an entry of
\* a closed connection; a join gives the connection exactly one entry, the
\* one of this join, a disconnect leaves it none, either leaves the entries
\* of the other connections alone, and no other step changes the roster. So
\* the roster holds one User for each connection whose latest join or
\* disconnect is a join, and nothing else.
C18_RosterFollowsJoins ==
  /\ [](\A c \in Conns : /\ Cardinality(RosterEntries(users, c)) <= 1
                          /\ (c \notin sockets => RosterEntries(users, c) = {}))
  /\ [](\A k \in 1..Len(users) : users[k].id \in Conns)
  /\ [][ /\ \A c \in Conns : (
              /\ JoinBy(c) =>
                    /\ Cardinality(RosterEntries(users', c)) = 1
                    /\ UsersOf(users', c) =
                         { [ id |-> c, username |-> NameOf(c), color |-> getNextColor ] }
                    /\ \A d \in Conns \ {c} : UsersOf(users', d) = UsersOf(users, d)
              /\ LeaveBy(c) =>
                    /\ RosterEntries(users', c) = {}
                    /\ \A d \in Conns \ {c} : UsersOf(users', d) = UsersOf(users, d) )
          /\ (\A e \in Conns : ~JoinBy(e) /\ ~LeaveBy(e)) => users' = users ]_vars

\* Three joins and then the disconnect of c2, which had joined: the roster
\* holds c1 alone, with the colour of the third join, so that c1 or c2 had
\* joined twice; c3 is connected and never joined.
C18_Witness ==
  /\ inputs = 4 /\ colorIndex = 3
  /\ sockets = { "c1", "c3" }
  /\ Len(users) = 1 /\ users[1].id = "c1" /\ users[1].color = USER_COLORS[3]
  /\ Len(emitted) = 3 /\ emitted[2].event = "user-left" /\ emitted[2].data.id = "c2"
\* ---- C19
\* the server handles the pending request of connection c in this step
Served(c) == toServer[c] # << >> /\ toServer'[c] = Tail(toServer[c])
ToAll(event, data) == [ to |-> sockets, event |-> event, data |-> data ]
\* what the request m does to the lists and what it announces when every
\* write succeeds; nothing here reads the gateway
ListEffect(m) ==
  LET recIdx    == IF m.event \in { "rename-recording", "delete-recording" }
                   THEN FindIndex(recordings, m.data.recId) ELSE 0
      presetIdx == IF m.event \in { "rename-preset", "delete-preset" }
                   THEN FindIndex(boardPresets, m.data.presetId) ELSE 0
  IN  CASE m.event = "recording-stop" /\ rec.active ->
             /\ recordings' = Append(recordings,
                                 [ id |-> nextRecId, name |-> "Recording",
                                   duration |-> Duration(rec.timeline),
                                   eventCount |-> Len(rec.timeline),
                                   snapshot |-> rec.snapshot, timeline |-> rec.timeline ])
             /\ nextRecId' = nextRecId + 1
             /\ emitted' = << ToAll("recording-saved", getRecordingsList(recordings')) >>
             /\ UNCHANGED presetVars
        [] m.event = "rename-recording" /\ recIdx # 0 ->
             /\ recordings' = [recordings EXCEPT ![recIdx].name = m.data.newName]
             /\ emitted' = << ToAll("recordings-list", getRecordingsList(recordings')) >>
             /\ UNCHANGED << nextRecId, presetVars >>
        [] m.event = "delete-recording" /\ recIdx # 0 ->
             /\ recordings' = RemoveAt(recordings, recIdx)
             /\ emitted' = << ToAll("recordings-list", getRecordingsList(recordings')) >>
             /\ UNCHANGED << nextRecId, presetVars >>
        [] m.event = "save-preset" ->
             /\ boardPresets' = Append(boardPresets,
                                   [ id |-> nextPresetId, name |-> "Preset", strokes |-> strokes,
                                     arrows |-> arrows, tokens |-> tokens ])
             /\ nextPresetId' = nextPresetId + 1
             /\ Len(emitted') = 2
             /\ emitted'[1] = ToAll("presets-list", getBoardPresetsList(boardPresets'))
             /\ UNCHANGED << recordings, nextRecId >>
        [] m.event = "rename-preset" /\ presetIdx # 0 ->
             /\ boardPresets' = [boardPresets EXCEPT ![presetIdx].name = m.data.newName]
             /\ emitted' = << ToAll("presets-list", getBoardPresetsList(boardPresets')) >>
             /\ UNCHANGED << recordings, nextRecId, nextPresetId >>
        [] m.event = "delete-preset" /\ presetIdx # 0 ->
             /\ boardPresets' = RemoveAt(boardPresets, presetIdx)
             /\ emitted' = << ToAll("presets-list", getBoardPresetsList(boardPresets')) >>
             /\ UNCHANGED << recordings, nextRecId, nextPresetId >>
        [] OTHER -> TRUE

\* C19: whether the database and the file accept the write or fail, a
\* recording-stop, a rename or delete of a recording, and a save, rename or
\* delete of a preset change the in-memory lists as they do when every write
\* succeeds, leave strokes, arrows and tokens alone, and send the list to all
\* connections; a failing gateway changes nothing but the gateway.
C19_WriteFailureIsInvisible ==
  [][ /\ \A c \in Director :
            (Served(c) /\ Head(toServer[c]).event # "token-add")
               => (ListEffect(Head(toServer[c])) /\ Doc' = Doc)
      /\ (gateway'.dbUp # gateway.dbUp \/ gateway'.fileUp # gateway.fileUp)
            => UNCHANGED << docVars, recVars, presetVars, emitted >> ]_vars

\* The recording was inserted; its delete then failed in the database and in
\* the file: the list in memory is empty and was sent to all, the row and the
\* file still hold the recording.
C19_Witness ==
  /\ ~gateway.dbUp /\ ~gateway.fileUp
  /\ recordings = << >> /\ nextRecId = 2
  /\ Len(gateway.recordingsTable) = 1
  /\ gateway.RECORDINGS_FILE # Null /\ Len(gateway.RECORDINGS_FILE.recordings) = 1
  /\ emitted = << ToAll("recordings-list", << >>) >>
\* ---- C20
\* C20: when the server handles the token-relabel of connection c, no
\* token-relabel it emits is addressed to c.
C20_RelabelGoesToOthersOnly ==
  [][ \A c \in Conns :
        (Served(c) /\ Head(toServer[c]).event = "token-relabel")
          => \A k \in 1..Len(emitted') :
               emitted'[k].event = "token-relabel" => c \notin emitted'[k].to ]_vars
\* ---- C21
\* the messages of this event among what the step's handler emits
EmittedOf(event) == { k \in 1..Len(emitted') : emitted'[k].event = event }

\* C21: when the server handles the stroke-done of connection c, or its
\* token-move for a token in the store, it emits that event once, addressed to
\* every connection but c; and with no replay running no connection ever has
\* its own stroke or its own move waiting for delivery.
C21_LiveEventsGoToOthersOnly ==
  /\ [][ \A c \in Conns :
           LET m == Head(toServer[c])
           IN  ( /\ Served(c)
                 /\ \/ m.event = "stroke-done"
                    \/ m.event = "token-move" /\ FindIndex(tokens, m.data.id) # 0 )
               => /\ Cardinality(EmittedOf(m.event)) = 1
                  /\ \A k \in EmittedOf(m.event) : emitted'[k].to = sockets \ {c} ]_vars
  /\ [](\A c \in Peers : \A k \in 1..Len(toClient[c]) :
          LET m == toClient[c][k]
          IN  /\ m.event = "stroke-done" => m.data.socketId # c
              /\ m.event = "token-move" => << m.data.x, m.data.y >> # DragInputs(c))

\* c1 drew a stroke and dragged the token; the server handled both: both wait
\* for c2 and for c3, and nothing waits for c1.
C21_Witness ==
  /\ ~rep.active /\ toServer["c1"] = << >>
  /\ toClient["c1"] = << >>
  /\ \A d \in { "c2", "c3" } :
       /\ \E k \in 1..Len(toClient[d]) :
            toClient[d][k].event = "stroke-done" /\ toClient[d][k].data.socketId = "c1"
       /\ \E k \in 1..Len(toClient[d]) :
            toClient[d][k].event = "token-move" /\ toClient[d][k].data.x = 1
\* ---- C22
\* the three messages of a disconnect of c, each addressed to the others
LeftMessages(c) ==
  /\ Len(emitted') = 3
  /\ \A k \in 1..3 : emitted'[k].to = sockets \ {c}
  /\ emitted'[1].event = "cursor-remove" /\ emitted'[1].data = [socketId |-> c]
  /\ emitted'[2].event = "user-left"
  /\ emitted'[3].event = "user-list" /\ emitted'[3].data = users'

\* C22 as stated: the disconnect of c removes c from the roster and sends the
\* others a cursor-remove for c, a user-left and the roster without c.
C22_DisconnectTellsOthers ==
  [][ \A c \in Conns :
        LeaveBy(c) => /\ RosterEntries(users', c) = {}
                      /\ LeftMessages(c) ]_vars

\* C22 amended: the disconnect of c removes c from the roster and sends the
\* others a cursor-remove for c and the roster without c; between the two it
\* sends them a user-left carrying c's User exactly when c had joined.
C22_DisconnectTellsOthersOfUsers ==
  [][ \A c \in Conns :
        LeaveBy(c) =>
          /\ RosterEntries(users', c) = {}
          /\ \A d \in Conns \ {c} : UsersOf(users', d) = UsersOf(users, d)
          /\ \A k \in 1..Len(emitted') :
               /\ emitted'[k].to = sockets \ {c}
               /\ emitted'[k].event = "user-list" =>
                    emitted'[k].data = users' /\ \A i \in 1..Len(users') : users'[i].id # c
          /\ IF RosterEntries(users, c) # {}
             THEN LeftMessages(c) /\ { emitted'[2].data } = UsersOf(users, c)
             ELSE /\ Len(emitted') = 2
                  /\ emitted'[1].event = "cursor-remove" /\ emitted'[1].data = [socketId |-> c]
                  /\ emitted'[2].event = "user-list" ]_vars

\* c2, joined like c1, disconnected: c1 and c3 are sent the three messages,
\* and the roster in the last one holds c1 alone.
C22_Witness ==
  /\ sockets = { "c1", "c3" }
  /\ Len(emitted) = 3 /\ emitted[1].event = "cursor-remove"
  /\ emitted[1].data.socketId = "c2" /\ emitted[1].to = { "c1", "c3" }
  /\ emitted[2].event = "user-left" /\ emitted[2].data.id = "c2"
  /\ emitted[3].event = "user-list" /\ Len(emitted[3].data) = 1
  /\ emitted[3].data[1].id = "c1"
\* ---- C23
\* C23: every stroke in the server's stroke collection has at least 2 points.
C23_StrokesHaveTwoPoints == \A k \in 1..Len(strokes) : strokes[k].points >= 2
\* ---- C24
\* the step stops the running recording
RecorderStops == rec.active /\ ~rec'.active

\* C24: the step that stops a running recording stores one more Recording,
\* whose duration is the offset of the last timeline entry, 0 for an empty
\* timeline, and whose eventCount is the number of entries; the recorder is
\* idle afterwards, and the list of all stored recordings is sent to every
\* connection as recording-saved.
C24_StopFinalizesRecording ==
  [][ RecorderStops =>
        LET tl    == rec.timeline
            saved == Last(recordings')
        IN  /\ Len(recordings') = Len(recordings) + 1
            /\ SubSeq(recordings', 1, Len(recordings)) = recordings
            /\ saved.timeline = tl
            /\ saved.eventCount = Len(tl)
            /\ saved.duration = (IF tl = << >> THEN 0 ELSE tl[Len(tl)].t)
            /\ Len(emitted') = 1 /\ emitted'[1].event = "recording-saved"
            /\ emitted'[1].to = sockets
            /\ Len(emitted'[1].data) = Len(recordings')
            /\ \A k \in 1..Len(recordings') :
                 /\ emitted'[1].data[k].id = recordings'[k].id
                 /\ emitted'[1].data[k].duration = recordings'[k].duration
                 /\ emitted'[1].data[k].eventCount = recordings'[k].eventCount ]_vars

\* A recording in which nothing happened was stopped after time had passed:
\* its duration and its eventCount are 0.
C24_Witness ==
  /\ ~rec.active /\ now > rec.start
  /\ Len(emitted) = 1 /\ emitted[1].event = "recording-saved"
  /\ recordings # << >>
  /\ Last(recordings).timeline = << >>
  /\ Last(recordings).duration = 0 /\ Last(recordings).eventCount = 0
\* ---- C25
\* C25: a recording-start handled while a recording or a replay is running
\* leaves the recorder (timeline, snapshot, start), the store, the replay and
\* the lists as they are and emits no recording-started; a recording-stop
\* handled while the recorder is idle stores no recording and changes nothing.
C25_RefusedRecorderRequestsChangeNothing ==
  [][ \A c \in Conns :
        LET m == Head(toServer[c])
        IN  ( /\ Served(c)
              /\ \/ m.event = "recording-start" /\ (rec.active \/ rep.active)
                 \/ m.event = "recording-stop" /\ ~rec.active )
            => /\ UNCHANGED << docVars, recVars, repVars, presetVars, idVars, gateway >>
               /\ \A k \in 1..Len(emitted') :
                    emitted'[k].event \notin { "recording-started", "recording-saved" } ]_vars

\* Two requests were handled: the first started the recording that is still
\* running, the second was refused without a message, as the recording-start
\* on a running recording is; timeline, snapshot and start are the first's.
C25_Witness ==
  /\ inputs = 2 /\ toServer["c1"] = << >>
  /\ rec.active /\ ~rep.active /\ recordings = << >>
  /\ rec.timeline = << >> /\ rec.start = 0 /\ rec.snapshot = Doc
  /\ emitted = << >>
\* ---- C26
\* what a timeline says happened: the offsets and the event names, in order
Course(tl) == [ i \in 1..Len(tl) |-> [ t |-> tl[i].t, event |-> tl[i].event ] ]
NonDecreasing(tl) == \A i \in 1..(Len(tl) - 1) : tl[i].t <= tl[i + 1].t
\* the entries of tl2 beyond those of tl1 are events this step's handler
\* processed, stamped with the present offset
GrowsByProcessed(tl1, tl2) ==
  /\ Len(tl2) >= Len(tl1)
  /\ Course(SubSeq(tl2, 1, Len(tl1))) = Course(tl1)
  /\ \A i \in (Len(tl1) + 1)..Len(tl2) :
       /\ tl2[i].t = now - rec.start
       /\ \E k \in 1..Len(emitted') : /\ emitted'[k].event = tl2[i].event
                                      /\ emitted'[k].data = tl2[i].data

\* C26: a running recording's timeline grows only by events processed in the
\* step, stamped with the present offset; an idle recorder's timeline takes no
\* entry, and an accepted recording-start begins with an empty one; the
\* timeline stored at recording-stop is the recorder's and its course never
\* changes afterwards; offsets never decrease along a timeline.
C26_TimelineHoldsWhatWasRecorded ==
  /\ [][ /\ (rec.active /\ rec'.active) => GrowsByProcessed(rec.timeline, rec'.timeline)
         /\ (rec.active /\ ~rec'.active) =>
              /\ Len(recordings') = Len(recordings) + 1
              /\ Course(Last(recordings').timeline) = Course(rec.timeline)
         /\ (~rec.active /\ ~rec'.active) =>
              /\ Course(rec'.timeline) = Course(rec.timeline)
              /\ Len(recordings') = Len(recordings)
         /\ (~rec.active /\ rec'.active) => rec'.timeline = << >>
         /\ \A k \in 1..Len(recordings) :
              /\ Len(recordings') >= k
              /\ Course(recordings'[k].timeline) = Course(recordings[k].timeline) ]_vars
  /\ [](/\ NonDecreasing(rec.timeline)
        /\ \A k \in 1..Len(recordings) : NonDecreasing(recordings[k].timeline))

\* Two strokes were processed, one of them while the recorder was idle: the
\* stored recording holds one entry, stamped a tick after its start.
C26_Witness ==
  /\ ~rec.active /\ Len(strokes) = 2
  /\ Len(recordings) = 1 /\ Len(recordings[1].timeline) = 1
  /\ recordings[1].timeline[1].event = "stroke-done"
  /\ recordings[1].timeline[1].t = TickMs

\* C27: while a recording is active, every processed event that changes the
\* strokes, arrows or tokens of the store appends at least one entry to the
\* timeline.  A processed event is a step that takes a socket event (not a
\* timer callback and not the passing of time).
ProcessedEvent == inputs' # inputs /\ now' = now
C27_EveryChangeIsRecorded ==
  [][ (rec.active /\ rec'.active /\ ProcessedEvent /\ Doc' # Doc)
        => Len(rec'.timeline) > Len(rec.timeline) ]_vars
\* ---- C28
\* C28: a replay-start handled while a replay is running, or naming an id
\* that no stored recording carries, leaves the store, the replay (active
\* flag, pre-replay snapshot, timer handles, current recording id), the
\* pending timers, the recorder and the lists as they are and emits nothing.
C28_RefusedReplayStartChangesNothing ==
  [][ \A c \in Conns :
        LET m == Head(toServer[c])
        IN  ( /\ Served(c)
              /\ m.event = "replay-start"
              /\ (rep.active \/ \A k \in 1..Len(recordings) : recordings[k].id # m.data.recId) )
            => /\ UNCHANGED << docVars, rep, timerq, recVars, presetVars, idVars >>
               /\ emitted' = << >> ]_vars

\* Four requests were handled: a recording was started and stored, its
\* replay was started and is running with both its timers pending, and the
\* fourth request was refused without a message, as a replay-start on a
\* running replay is.
C28_Witness ==
  /\ inputs = 4 /\ toServer["c1"] = << >>
  /\ rep.active /\ rep.currentRecId = 1 /\ ~rec.active /\ Len(recordings) = 1
  /\ Len(timerq) = 2 /\ now = 0
  /\ emitted = << >>
\* ---- C29
\* the step is the end-of-replay procedure
ReplayEnds == rep.active /\ ~rep'.active
\* the procedure's broadcasts: a clear-board, then a replay-restore that
\* carries the pre-replay snapshot, which the store now holds, then a
\* replay-done, each to every connection
EndOfReplayBroadcasts ==
  /\ Doc' = rep.preSnap
  /\ \E i, j, k \in 1..Len(emitted') :
       /\ i < j /\ j < k
       /\ emitted'[i] = ToAll("clear-board", NoData)
       /\ emitted'[j] = ToAll("replay-restore", SnapshotPayload(Doc'))
       /\ emitted'[k] = ToAll("replay-done", NoData)
\* the broadcasts are made and the engine's handle list is empty
EndOfReplayLeavesIdleEngine ==
  [][ ReplayEnds => EndOfReplayBroadcasts /\ rep'.timers = << >>
                    /\ rep'.currentRecId = NoRec ]_vars
\* C29: the end-of-replay procedure broadcasts, in this order, a clear-board,
\* a replay-restore carrying the pre-replay snapshot now held by the store,
\* and a replay-done; when it completes the replay engine is idle and no
\* timer is pending.
C29_EndOfReplayProcedure ==
  [][ ReplayEnds => /\ EndOfReplayBroadcasts
                    /\ rep'.timers = << >>
                    /\ timerq' = << >> ]_vars
\* ---- C30
\* the replay-init timers pending in the queue q
PendingInits(q) == { i \in 1..Len(q) : q[i].kind = "init" }
\* C30: the step that accepts a replay-start sets the store to the base
\* snapshot of the recording named, broadcasts clear-board and leaves a
\* replay-init carrying that snapshot to be sent; a replay-init leaves the
\* queue only by being broadcast to every connection; and when a timeline
\* entry is re-emitted no replay-init is waiting any more, also when the
\* entry's offset is 0.
C30_HydrationPrecedesEntries ==
  [][ /\ (~rep.active /\ rep'.active) =>
           LET recording == recordings[FindIndex(recordings, rep'.currentRecId)]
           IN  /\ Doc' = recording.snapshot
               /\ emitted'[1] = ToAll("clear-board", NoData)
               /\ \E i \in PendingInits(timerq') :
                     /\ timerq'[i].data = SnapshotPayload(recording.snapshot)
                     /\ \A j \in 1..Len(timerq') :
                          timerq'[j].kind = "entry" => timerq'[i].due < timerq'[j].due
      /\ Len(timerq') < Len(timerq) =>
           \A i \in PendingInits(timerq) :
              (\A j \in 1..Len(timerq') : timerq'[j].id # timerq[i].id)
                 => emitted' = << ToAll("replay-init", timerq[i].data) >>
      /\ Len(replayLog') > Len(replayLog) => PendingInits(timerq) = { }
    ]_vars

\* the replay of a timeline whose first entry has offset 0 is running, that
\* entry has just been re-emitted and no replay-init is waiting
C30_Witness ==
  /\ rep.active /\ Len(replayLog) = 1
  /\ TimelineOf(rep.currentRecId)[1].t = 0
  /\ emitted = << replayLog[1] >>
  /\ PendingInits(timerq) = { }
\* ---- C31
\* C31: the token counter and the arrow counter never decrease and no step
\* advances both; a step that issues a token id advances the token counter
\* alone and issues an id never issued before, and likewise for arrow ids,
\* whatever clear-board, load-preset, replay-start or the end of a replay
\* did to the store in between.
C31_IndependentCounters ==
  [][ /\ nextTokenId' >= nextTokenId /\ nextArrowId' >= nextArrowId
      /\ ~(nextTokenId' # nextTokenId /\ nextArrowId' # nextArrowId)
      /\ Len(issued'.tokens) > Len(issued.tokens) =>
           /\ nextTokenId' > nextTokenId /\ nextArrowId' = nextArrowId
           /\ Last(issued'.tokens) \notin Range(issued.tokens)
           /\ Last(issued'.tokens) \notin Range(issued.arrows)
      /\ Len(issued'.arrows) > Len(issued.arrows) =>
           /\ nextArrowId' > nextArrowId /\ nextTokenId' = nextTokenId
           /\ Last(issued'.arrows) \notin Range(issued.arrows)
           /\ Last(issued'.arrows) \notin Range(issued.tokens) ]_vars

\* a second arrow and a second token were issued after the store was
\* replaced: the store holds the latest token alone
C31_Witness ==
  /\ Len(issued.tokens) = 2 /\ Len(issued.arrows) = 2
  /\ Ids(tokens) = << Last(issued.tokens) >>
  /\ emitted # << >> /\ emitted[1].event = "token-add"
  /\ Ids(arrows) = << Last(issued.arrows) >>
\* ---- C32
\* C32: the k-th join the server processes, repeated joins of a connection
\* counted, is given the palette colour at index (k - 1) mod 8: the joiner's
\* roster entry and the `you` of its init-state carry that colour.
C32_ColoursRoundRobin ==
  [][ inputs' = inputs + 1 =>
        LET k      == inputs'
            colour == USER_COLORS[((k - 1) % 8) + 1]
            you    == emitted'[1].data.you
        IN  /\ emitted'[1].event = "init-state"
            /\ you.color = colour
            /\ Last(users') = you
            /\ Len(USER_COLORS) = 8 ]_vars

\* the ninth join has been processed: the palette has wrapped, and the joiner
\* has the first colour, which the roster's entry of the first join also has
C32_Witness ==
  /\ inputs = 9
  /\ Last(users).color = USER_COLORS[1]
  /\ \E i \in 1..(Len(users) - 1) : users[i].color = USER_COLORS[1]
\* ---- C33
\* the step adds a token: it takes a token-add and hands out an id
TokenAdded == Len(issued'.tokens) = Len(issued.tokens) + 1
\* C33: a token-add never replaces a token of the store: the id it assigns
\* is the id of no token in the store, also when the store was filled by
\* load-preset or replay-start from a list loaded at server start.
C33_TokenAddNeverReplaces ==
  [][ TokenAdded =>
        /\ Last(issued'.tokens) \notin Range(Ids(tokens))
        /\ Len(tokens') = Len(tokens) + 1 ]_vars
\* ---- C39
\* C39: no two recordings of the in-memory list share an id and no two
\* presets share an id, and each counter is beyond every id of its list,
\* whatever was stored, deleted and reloaded at a restart from the database
\* or from the file.
C39_ListIdsUnique ==
  /\ Distinct(Ids(recordings)) /\ Distinct(Ids(boardPresets))
  /\ \A k \in 1..Len(recordings) : recordings[k].id < nextRecId
  /\ \A k \in 1..Len(boardPresets) : boardPresets[k].id < nextPresetId

\* a restart loaded the presets while the database could not be read, so
\* memory is behind it (the table holds an id the counter has not reached),
\* and a preset was saved afterwards
C39_Witness ==
  /\ Ids(boardPresets) = << 1, 2 >> /\ nextPresetId = 3
  /\ \E k \in 1..Len(gateway.presetsTable) : gateway.presetsTable[k].id = 3
  /\ emitted # << >> /\ emitted[1].event = "presets-list"
\* ---- C37
\* C37: when two connections drag the same token, each moving it locally
\* before it sends token-move, then once every message is delivered each
\* sender's place of the token is the place the server holds.
C37_SendersAgreeWithServer ==
  Quiescent => \A c \in Peers : Places(cl[c].tokens) = Places(tokens)
\* ---- C38
\* the entries of s whose id is not in ids, in the order of s
NotNamed(s, ids) ==
  LET Keep(e) == e.id \notin Range(ids) IN SelectSeq(s, Keep)
\* C38: after a stroke-remove with the list ids is processed the store holds
\* no stroke whose id is in ids, also when several stored strokes carry one
\* id, and the strokes not named are kept in their order.
C38_RemoveLeavesNoListedStroke ==
  [][ \A c \in Conns : \A ids \in StrokeIdsInputs(c) :
        (inputs' # inputs /\ emitted' = << ToAll("stroke-remove", [ids |-> ids]) >>)
          => /\ \A i \in 1..Len(strokes') : strokes'[i].id \notin Range(ids)
             /\ strokes' = NotNamed(strokes, ids) ]_vars
\* ---- C34
\* what a client shows: its strokes, arrows and tokens
Shown(me) == [ strokes |-> me.allStrokes, arrows |-> me.allArrows, tokens |-> me.tokens ]
\* C34: whenever a replay is running and no message is in flight, all clients
\* whose board has arrived show the same strokes, arrows and tokens, those
\* that joined after timeline entries were re-emitted included.
C34_LateJoinerSeesReplay ==
  (rep.active /\ Quiescent) =>
     \A c, d \in Loaded : Shown(cl[c]) = Shown(cl[d])
\* ---- C36
\* a handler or a timer callback ran in this step
Acted == (\E c \in Conns : Served(c)) \/ (timerq' # timerq /\ toServer' = toServer)
\* the end-of-replay procedure ran in this step
ProcedureRuns == Acted /\ \E k \in 1..Len(emitted') : emitted'[k].event = "replay-done"
\* C36: the end-of-replay procedure runs only while a replay is active and
\* ends it, restoring the store from the snapshot that the replay's start
\* saved, so it runs at most once per accepted replay-start; a replay-stop
\* handled while idle does nothing; and no terminal timer is pending while
\* the engine is idle, so none runs the procedure after a stop.
C36_ProcedureRunsOncePerReplay ==
  /\ [][ /\ ProcedureRuns =>
              /\ rep.active /\ ~rep'.active
              /\ rep.preSnap # Null /\ Doc' = rep.preSnap
         /\ \A c \in Conns :
              (Served(c) /\ Head(toServer[c]).event = "replay-stop" /\ ~rep.active)
                 => /\ UNCHANGED << docVars, rep, timerq, recVars >>
                    /\ emitted' = << >>
         /\ (~rep.active /\ rep'.active) => rep'.preSnap = Doc ]_vars
  /\ [](~rep.active => \A i \in 1..Len(timerq) : timerq[i].kind # "end")

\* a replay was stopped at the instant it was started: the procedure has
\* run, the engine is idle and the replay's terminal timer is gone
C36_Witness ==
  /\ ~rep.active /\ rep.preSnap # Null /\ now = 0
  /\ Len(emitted) = 4 /\ emitted[4].event = "replay-done"
  /\ timerq # << >> /\ \A i \in 1..Len(timerq) : timerq[i].kind = "init"
\* ---- C35
\* C35: every replay that is started ends: a state with the replay engine
\* replaying is followed by a state with the engine idle, with or without a
\* replay-stop, when timers that are due run and time goes on; the step
\* that leaves it idle broadcasts replay-done.
C35_ReplayEnds ==
  rep.active ~> (/\ ~rep.active
                 /\ \E k \in 1..Len(emitted) : emitted[k].event = "replay-done")

\* a replay has been ended by its terminal timer, the trailing delay after
\* the replay-start, and no timer is left
C35_Witness ==
  /\ ~rep.active /\ rep.preSnap # Null
  /\ Len(emitted) = 4 /\ emitted[4].event = "replay-done"
  /\ now >= EndTrailMs /\ timerq = << >>
  /\ Len(recordings) = 1 /\ Len(recordings[1].timeline) = 1
====
